---------------------------- MODULE Spec2Model ----------------------------
(* Model of the CoinGecko ETL pipeline of dataverse-market-insights:         *)
(*   scripts/extract_coingecko.py, scripts/transform_coingecko.py,          *)
(*   src/utils/metadata_logger.py, src/utils/s3_uploader.py and             *)
(*   dags/dataverse_market_insights_dag.py.                                 *)
(*                                                                          *)
(* and of the sagemaker_studio library the Airflow environment carries:     *)
(*   execution/local_execution_client.py, remote_execution_client.py,       *)
(*   execution/utils.py, projects/__init__.py, connections/__init__.py,     *)
(*   project.py, sagemaker_studio_api.py and utils/_internal.py,            *)
(*                                                                          *)
(* and of scripts/create_glue_table.py.                                     *)
(*                                                                          *)
(* These specifications share the module:                                   *)
(*   SpecLatest    get_latest_bronze_file over bronze key listings          *)
(*   SpecTransform transform_data over small input frames                   *)
(*   SpecFetch     fetch_crypto_data under its tenacity retry decorator     *)
(*   Spec          the scheduled pipeline: DAG tasks, script processes,     *)
(*                 the bronze/silver buckets and the extraction_logs table  *)
(*   SpecKeys      the object keys the two uploads write                    *)
(*   SpecLocalStop LocalExecutionClient.stop_execution                      *)
(*   SpecRemote    one call on a fresh RemoteExecutionClient                *)
(*   SpecProject   ProjectService.get_project_default_environment           *)
(*   SpecField     InternalUtils._get_field_from_environment                *)
(*   SpecList      ConnectionService.list_connections, page by page         *)
(*   SpecLocalStart LocalExecutionClient.start_execution                    *)
(*   SpecScriptPath Project.workflow_script_path                            *)
(*   SpecConnections Project.connections                                    *)
(*   SpecApi       constructions of SageMakerStudioAPI                      *)
(*   SpecGlue      create_glue_table.main and the crawler it starts         *)
EXTENDS Integers, Sequences, FiniteSets, TLC

VARIABLES
    \* ---- object storage, clock and metadata table (Spec, SpecLatest)
    bronze,           \* bronze bucket: object (its key is KeyOf) -> content
    silver,           \* silver bucket: object (its key is KeyOf) -> content
    now,              \* the UTC clock, in slots since the first modelled day
    extraction_logs,  \* rows of the SQLite table, in insertion order
    table_exists,     \* whether extraction_logs has been created
    procs,            \* script processes started by run_script
    tasks,            \* task instances of the DAG runs
    \* ---- get_latest_bronze_file (SpecLatest)
    latest_file,      \* its last return value
    \* ---- transform_data (SpecTransform)
    df,               \* the input frame
    out,              \* the returned frame
    \* ---- fetch_crypto_data (SpecFetch)
    fetch,            \* state of one decorated call
    \* ---- the vendored sagemaker_studio package (SpecLocalStop, ...)
    sdk               \* state of the library call followed, and of the
                      \* services it talks to

vars == <<bronze, silver, now, extraction_logs, table_exists, procs, tasks,
          latest_file, df, out, fetch, sdk>>

storeVars == <<bronze, silver, now, extraction_logs, table_exists, procs, tasks>>
frameVars == <<df, out>>
etlVars == <<storeVars, latest_file, df, out, fetch>>

NULL == "NULL"

-----------------------------------------------------------------------------
(* Bounds of the model.                                                     *)
MaxDay == 2        \* days modelled: 0 .. MaxDay-1
SlotsPerDay == 2   \* distinct clock readings (seconds) modelled per day

-----------------------------------------------------------------------------
(* Strings are sequences of one-character strings, so that split, endswith  *)
(* and Python's string comparison are computed rather than assumed.         *)

\* The characters that occur in object keys, in code-point order.
CodePoints == <<"-", ".", "/", "0", "1", "2", "3", "4", "5", "6", "7", "8", "9",
                "=", "_", "a", "b", "c", "d", "e", "g", "i", "l", "n", "o",
                "p", "r", "s", "t", "v", "y", "z">>

Ord(c) == CHOOSE i \in 1..Len(CodePoints) : CodePoints[i] = c

\* Python's str "<": lexicographic by code point, a proper prefix is smaller.
StrLess(a, b) ==
    \E i \in 1..Len(b) :
        /\ \A j \in 1..(i-1) : j <= Len(a) /\ a[j] = b[j]
        /\ \/ i = Len(a) + 1
           \/ i <= Len(a) /\ Ord(a[i]) < Ord(b[i])

Digit(n) == CodePoints[4 + n]

\* strftime's zero-padded two-digit field
Fmt2(n) == <<Digit(n \div 10), Digit(n % 10)>>

EndsWith(s, suffix) ==
    /\ Len(s) >= Len(suffix)
    /\ SubSeq(s, Len(s) - Len(suffix) + 1, Len(s)) = suffix

\* x.split("_")[-1]: the text after the last underscore (all of x if none)
LastField(s) ==
    LET us == {i \in 1..Len(s) : s[i] = "_"}
    IN  IF us = {} THEN s
        ELSE SubSeq(s, (CHOOSE i \in us : \A j \in us : j <= i) + 1, Len(s))

-----------------------------------------------------------------------------
(* The clock and strftime.  A clock value c is slot (c % SlotsPerDay) of    *)
(* day (c \div SlotsPerDay); the slots of a day are spread evenly over its  *)
(* 24 hours, the days are 2025-01-01, 2025-01-02, ...                       *)

DayOf(c) == c \div SlotsPerDay
SlotOf(c) == c % SlotsPerDay

\* strftime("%Y-%m-%d")
StrfDate(c) == <<"2", "0", "2", "5", "-", "0", "1", "-">> \o Fmt2(DayOf(c) + 1)

\* strftime("%Y%m%d_%H%M%S")
StrfStamp(c) ==
    <<"2", "0", "2", "5", "0", "1">> \o Fmt2(DayOf(c) + 1) \o <<"_">>
        \o Fmt2(SlotOf(c) * (24 \div SlotsPerDay)) \o <<"0", "0", "0", "0">>

CsvExt == <<".", "c", "s", "v">>
BronzePrefix == <<"b", "r", "o", "n", "z", "e", "/", "c", "r", "y", "p", "t", "o", "/">>
SilverPrefix == <<"s", "i", "l", "v", "e", "r", "/", "c", "r", "y", "p", "t", "o", "/">>
IngestDateEq == <<"i", "n", "g", "e", "s", "t", "_", "d", "a", "t", "e", "=">>

\* os.path.basename(f"data/bronze/crypto_data_{stamp}.csv")
BronzeFileName(cFile) ==
    <<"c", "r", "y", "p", "t", "o", "_", "d", "a", "t", "a", "_">> \o StrfStamp(cFile) \o CsvExt

\* (mutation: the key ends in the local path, without os.path.basename)
BronzeKeyWithLocalPath(cDate, cFile) ==
    BronzePrefix \o IngestDateEq \o StrfDate(cDate) \o <<"/">>
        \o <<"d", "a", "t", "a", "/", "b", "r", "o", "n", "z", "e", "/">>
        \o BronzeFileName(cFile)

\* f"bronze/crypto/ingest_date={ingest_date}/{basename(filename)}"
BronzeKey(cDate, cFile) ==
    BronzePrefix \o IngestDateEq \o StrfDate(cDate) \o <<"/">> \o BronzeFileName(cFile)

\* f"silver/crypto/ingest_date={ingest_date}/crypto_data_cleaned_{stamp}.csv"
SilverKey(cDate, cFile) ==
    SilverPrefix \o IngestDateEq \o StrfDate(cDate) \o <<"/">>
        \o <<"c", "r", "y", "p", "t", "o", "_", "d", "a", "t", "a", "_",
             "c", "l", "e", "a", "n", "e", "d", "_">> \o StrfStamp(cFile) \o CsvExt

-----------------------------------------------------------------------------
(* Buckets.  The state names an object by the clock readings its key was    *)
(* formatted from (or as the folder placeholder); the key itself is the     *)
(* string KeyOf gives, and every use of a key (listing, comparing, putting) *)
(* goes through that string.                                                *)

CsvObject(layer, cDate, cFile) ==
    [layer |-> layer, kind |-> "csv", cDate |-> cDate, cFile |-> cFile]
FolderObject(layer) == [layer |-> layer, kind |-> "folder", cDate |-> 0, cFile |-> 0]
NoObject == [layer |-> "", kind |-> "none", cDate |-> 0, cFile |-> 0]

KeyOf(o) ==
    IF o.kind = "folder" THEN (IF o.layer = "bronze" THEN BronzePrefix ELSE SilverPrefix)
    ELSE IF o.layer = "bronze" THEN BronzeKey(o.cDate, o.cFile)
    ELSE SilverKey(o.cDate, o.cFile)

KeysOf(bucket) == {KeyOf(o) : o \in DOMAIN bucket}

\* The object of `bucket` stored under the key string `key`
ObjectAt(bucket, key) == CHOOSE o \in DOMAIN bucket : KeyOf(o) = key

-----------------------------------------------------------------------------
(* get_latest_bronze_file                                                   *)

\* list_objects_v2 returns the keys under the prefix in ascending binary order
RECURSIVE SortKeys(_)
SortKeys(S) ==
    IF S = {} THEN <<>>
    ELSE LET m == CHOOSE k \in S : \A o \in S : o = k \/ StrLess(k, o)
         IN  <<m>> \o SortKeys(S \ {m})

HasPrefix(s, p) == Len(s) >= Len(p) /\ SubSeq(s, 1, Len(p)) = p

list_objects_v2(bucket, prefix) ==
    SortKeys({k \in KeysOf(bucket) : HasPrefix(k, prefix)})

\* Python's max(files, key=f): the first element whose key no other exceeds
PyMaxIndex(files) ==
    CHOOSE i \in 1..Len(files) :
        /\ \A j \in 1..Len(files) : ~StrLess(LastField(files[i]), LastField(files[j]))
        /\ \A j \in 1..(i-1) : LastField(files[j]) # LastField(files[i])

\* The outcome of a call: the value returned, or the exception raised
Returns(v) == [raises |-> NULL, value |-> v]
Raises(e) == [raises |-> e, value |-> <<>>]

get_latest_bronze_file(bucket) ==
    LET listing == list_objects_v2(bucket, BronzePrefix)
        files == SelectSeq(listing, LAMBDA k : EndsWith(k, CsvExt))
    IN  IF files = <<>> THEN Raises("FileNotFoundError")
        ELSE Returns(files[PyMaxIndex(files)])


-----------------------------------------------------------------------------
(* Initial values of the variable groups; every specification starts each   *)
(* group it does not exercise at these values and leaves it unchanged.      *)

NoObjects == <<>>

StoreInit ==
    /\ bronze = NoObjects
    /\ silver = NoObjects
    /\ now = 0
    /\ extraction_logs = <<>>
    /\ table_exists = FALSE
    /\ procs = <<>>
    /\ tasks = <<>>

LatestInit ==
    latest_file = [called |-> FALSE, raises |-> NULL, object |-> NoObject, listed |-> {}]

FrameInit == df = <<>> /\ out = [called |-> FALSE, frame |-> <<>>]

FetchInit ==
    fetch = [pc |-> "idle", attempt_number |-> 0, requests |-> 0,
             sleeps |-> <<>>, attempts |-> <<>>, result |-> Returns(<<>>)]

\* No library call is followed
SdkInit == sdk = [api |-> "none"]

-----------------------------------------------------------------------------
(* SpecLatest: a bronze bucket filled by extraction runs, one CSV per       *)
(* (day, slot), and calls of get_latest_bronze_file on it.                  *)

Clocks == 0..(MaxDay * SlotsPerDay - 1)

\* An extraction at clock reading c lands its CSV (extract main, both clock
\* reads in the same slot).
LatestPutCsv(c) ==
    /\ BronzeKey(c, c) \notin KeysOf(bronze)
    /\ bronze' = bronze @@ (CsvObject("bronze", c, c) :>
                               [by |-> 0, stamp |-> c, rows |-> 1, versions |-> 1])
    /\ UNCHANGED <<silver, now, extraction_logs, table_exists, procs, tasks,
                   latest_file, df, out, fetch, sdk>>

\* The console's folder placeholder: an object under the prefix that is no CSV.
LatestPutFolder ==
    /\ BronzePrefix \notin KeysOf(bronze)
    /\ bronze' = bronze @@ (FolderObject("bronze") :>
                               [by |-> 0, stamp |-> 0, rows |-> 0, versions |-> 1])
    /\ UNCHANGED <<silver, now, extraction_logs, table_exists, procs, tasks,
                   latest_file, df, out, fetch, sdk>>

LatestCall ==
    /\ LET r == get_latest_bronze_file(bronze)
       IN  latest_file' =
               [called |-> TRUE,
                raises |-> r.raises,
                object |-> IF r.raises = NULL THEN ObjectAt(bronze, r.value) ELSE NoObject,
                listed |-> DOMAIN bronze]
    /\ UNCHANGED <<storeVars, df, out, fetch, sdk>>

InitLatest == StoreInit /\ LatestInit /\ FrameInit /\ FetchInit /\ SdkInit

NextLatest ==
    \/ \E c \in Clocks : LatestPutCsv(c)
    \/ LatestPutFolder
    \/ LatestCall

SpecLatest == InitLatest /\ [][NextLatest]_vars

\* The objects among `objects` whose key ends in .csv
CsvObjects(objects) == {o \in objects : EndsWith(KeyOf(o), CsvExt)}

\* C1: whenever the listed bucket holds one or more extraction CSVs,
\* get_latest_bronze_file returns the key of the CSV with the latest
\* extraction timestamp (date and time of day), also across different dates.
C1_LatestIsNewest ==
    (latest_file.called /\ CsvObjects(latest_file.listed) # {}) =>
        /\ latest_file.raises = NULL
        /\ latest_file.object \in CsvObjects(latest_file.listed)
        /\ \A o \in CsvObjects(latest_file.listed) :
               bronze[o].stamp <= bronze[latest_file.object].stamp

-----------------------------------------------------------------------------
(* transform_data.  A frame is a sequence of rows; a row keeps the index    *)
(* label pandas gives it (its position in the CSV).  market_cap is counted  *)
(* in units of 5e8 USD, so the bin edges 0, 1e9, 10e9, 100e9, 1e12 are      *)
(* 0, 2, 20, 200, 2000 and each edge has a neighbour on both sides.         *)

MaxRows == 2   \* rows of the input frame

Ids == {"bitcoin", "ethereum"}
\* A numeric cell: a number, or NaN/NA (isna)
Num(n) == [isna |-> FALSE, v |-> n]
NA == [isna |-> TRUE, v |-> 0]

Prices == {NA, Num(3)}
Volumes == {Num(0), Num(6)}
MarketCaps == {NA} \cup {Num(n) : n \in {0, 1, 2, 3, 20, 21, 200, 201, 2000, 2001}}

Bins == <<0, 2, 20, 200, 2000>>
Labels == <<"Small Cap", "Mid Cap", "Large Cap", "Mega Cap">>

\* A row of pd.read_csv(obj["Body"]); an empty cell reads as NaN (NULL)
CsvRows ==
    [id : Ids, current_price : Prices, market_cap : MarketCaps, total_volume : Volumes]

\* (mutation: keep="last")
drop_duplicates_keep_last(frame) ==
    LET LastOfId(r) == \A q \in 1..Len(frame) :
                           frame[q].id = r.id => frame[q].idx <= r.idx
    IN  SelectSeq(frame, LastOfId)

\* df.drop_duplicates(subset=["id"]): keep="first"
drop_duplicates(frame) ==
    LET FirstOfId(r) == \A q \in 1..Len(frame) :
                            frame[q].id = r.id => frame[q].idx >= r.idx
    IN  SelectSeq(frame, FirstOfId)

\* (mutation: how="all")
dropna_how_all(frame) ==
    LET NotAllNull(r) == ~(r.current_price.isna /\ r.market_cap.isna)
    IN  SelectSeq(frame, NotAllNull)

\* df.dropna(subset=["current_price", "market_cap"]): how="any"
dropna(frame) ==
    LET Complete(r) == ~r.current_price.isna /\ ~r.market_cap.isna
    IN  SelectSeq(frame, Complete)

\* (mutation: the division without .replace(0, pd.NA): float division by 0
\* gives inf, written here as a ratio with denominator 0)
price_to_volume_ratio_no_replace(r) ==
    IF r.total_volume.isna \/ r.current_price.isna
    THEN [isna |-> TRUE, num |-> 0, den |-> 1]
    ELSE [isna |-> FALSE, num |-> r.current_price.v, den |-> r.total_volume.v]

\* current_price / total_volume.replace(0, pd.NA): NA where the volume is 0
price_to_volume_ratio(r) ==
    IF r.total_volume.isna \/ r.total_volume.v = 0 \/ r.current_price.isna
    THEN [isna |-> TRUE, num |-> 0, den |-> 1]
    ELSE [isna |-> FALSE, num |-> r.current_price.v, den |-> r.total_volume.v]

\* (mutation: right=False, left-closed intervals [bins[i], bins[i+1]))
pd_cut_left_closed(x) ==
    IF ~x.isna /\ \E i \in 1..Len(Labels) : Bins[i] <= x.v /\ x.v < Bins[i+1]
    THEN Labels[CHOOSE i \in 1..Len(Labels) : Bins[i] <= x.v /\ x.v < Bins[i+1]]
    ELSE NULL

\* pd.cut(x, bins, labels): right-closed intervals (bins[i], bins[i+1]],
\* NaN for a value in none of them
pd_cut(x) ==
    IF ~x.isna /\ \E i \in 1..Len(Labels) : Bins[i] < x.v /\ x.v <= Bins[i+1]
    THEN Labels[CHOOSE i \in 1..Len(Labels) : Bins[i] < x.v /\ x.v <= Bins[i+1]]
    ELSE NULL

transform_data(frame, clock) ==
    LET kept == dropna(drop_duplicates(frame))
    IN  [i \in 1..Len(kept) |->
            [idx |-> kept[i].idx,
             id |-> kept[i].id,
             current_price |-> kept[i].current_price,
             market_cap |-> kept[i].market_cap,
             total_volume |-> kept[i].total_volume,
             price_to_volume_ratio |-> price_to_volume_ratio(kept[i]),
             market_cap_category |-> pd_cut(kept[i].market_cap),
             processed_timestamp |-> clock]]

(* SpecTransform: the input frame is read row by row, then transformed.     *)

ReadCsvRow(r) ==
    /\ ~out.called
    /\ Len(df) < MaxRows
    /\ df' = Append(df, [idx |-> Len(df), id |-> r.id,
                         current_price |-> r.current_price,
                         market_cap |-> r.market_cap,
                         total_volume |-> r.total_volume])
    /\ UNCHANGED <<storeVars, latest_file, out, fetch, sdk>>

CallTransform ==
    /\ ~out.called
    /\ out' = [called |-> TRUE, frame |-> transform_data(df, now)]
    /\ UNCHANGED <<storeVars, latest_file, df, fetch, sdk>>

InitTransform == StoreInit /\ LatestInit /\ FrameInit /\ FetchInit /\ SdkInit

NextTransform ==
    \/ \E r \in CsvRows : ReadCsvRow(r)
    \/ CallTransform

SpecTransform == InitTransform /\ [][NextTransform]_vars

OutRows == {out.frame[i] : i \in 1..Len(out.frame)}
InRows == {df[i] : i \in 1..Len(df)}
FirstRowOf(ident) ==
    CHOOSE r \in InRows : r.id = ident /\ \A q \in InRows : q.id = ident => q.idx >= r.idx

SameRow(o, r) ==
    /\ o.idx = r.idx
    /\ o.id = r.id
    /\ o.current_price = r.current_price
    /\ o.market_cap = r.market_cap
    /\ o.total_volume = r.total_volume

Complete(r) == ~r.current_price.isna /\ ~r.market_cap.isna
InIds == {r.id : r \in InRows}
OutRowsOf(ident) == {o \in OutRows : o.id = ident}

\* C4 (as claimed): for every identifier that occurs in the input, the output
\* has exactly one row with that identifier and it is the input's first row
\* with that identifier, whatever nulls the occurrences carry.
C4_OneRowPerInputId ==
    out.called =>
        \A ident \in InIds :
            /\ Cardinality(OutRowsOf(ident)) = 1
            /\ \A o \in OutRowsOf(ident) : SameRow(o, FirstRowOf(ident))

\* C4 (amended): for every identifier that occurs in the input, the output
\* has at most one row with that identifier; it has one exactly when the
\* input's first row with that identifier has a non-null price and
\* capitalization, and then that row is this first row.  An identifier whose
\* first occurrence carries a null has no row in the output, even when a
\* later occurrence is complete.
C4_FirstRowOrNone ==
    out.called =>
        \A ident \in InIds :
            /\ Cardinality(OutRowsOf(ident)) <= 1
            /\ (OutRowsOf(ident) # {}) <=> Complete(FirstRowOf(ident))
            /\ \A o \in OutRowsOf(ident) : SameRow(o, FirstRowOf(ident))
            /\ Cardinality({i \in 1..Len(out.frame) : out.frame[i].id = ident})
                   = Cardinality(OutRowsOf(ident))

\* Witness of C4: transform_data has run on a frame in which an identifier's
\* first occurrence has a null and a later occurrence is complete.
C4_Witness ==
    /\ out.called
    /\ \E ident \in InIds :
           /\ ~Complete(FirstRowOf(ident))
           /\ \E r \in InRows : r.id = ident /\ Complete(r)
           /\ OutRowsOf(ident) = {}

\* C5: a row is labelled "Small Cap" exactly when its market_cap is in
\* (0, 1e9], "Mid Cap" exactly when in (1e9, 10e9], "Large Cap" exactly when
\* in (10e9, 100e9], "Mega Cap" exactly when in (100e9, 1e12]; each boundary
\* value falls in the lower tier.  (market_cap in units of 5e8.)
C5_TierIntervals ==
    out.called =>
        \A o \in OutRows :
            /\ (o.market_cap_category = "Small Cap")
                   <=> (0 < o.market_cap.v /\ o.market_cap.v <= 2)
            /\ (o.market_cap_category = "Mid Cap")
                   <=> (2 < o.market_cap.v /\ o.market_cap.v <= 20)
            /\ (o.market_cap_category = "Large Cap")
                   <=> (20 < o.market_cap.v /\ o.market_cap.v <= 200)
            /\ (o.market_cap_category = "Mega Cap")
                   <=> (200 < o.market_cap.v /\ o.market_cap.v <= 2000)

\* Witness of C5: an output with one row on a boundary (10e9, labelled
\* "Mid Cap") and one row just above a boundary (1e9 + 5e8, "Mid Cap" too).
C5_Witness ==
    /\ out.called
    /\ \E o \in OutRows : o.market_cap = Num(20) /\ o.market_cap_category = "Mid Cap"
    /\ \E o \in OutRows : o.market_cap = Num(3) /\ o.market_cap_category = "Mid Cap"

\* C9: every row of the output carries one of the four tier labels; the
\* label is never missing.
C9_EveryRowLabelled ==
    out.called =>
        \A o \in OutRows :
            o.market_cap_category \in {"Small Cap", "Mid Cap", "Large Cap", "Mega Cap"}

\* C10: the output has no row with a null current_price or market_cap, and
\* every input row that has both values and is the first row of its
\* identifier is present in the output.
C10_NullsDroppedFirstsKept ==
    out.called =>
        /\ \A o \in OutRows : ~o.current_price.isna /\ ~o.market_cap.isna
        /\ \A r \in InRows :
               (Complete(r) /\ r = FirstRowOf(r.id)) =>
                   \E o \in OutRows : SameRow(o, r)

\* Witness of C10: transform_data has dropped a first occurrence for a null
\* and kept a complete first occurrence of another identifier.
C10_Witness ==
    /\ out.called
    /\ \E r \in InRows : ~Complete(r) /\ r = FirstRowOf(r.id)
    /\ \E r \in InRows : Complete(r) /\ r = FirstRowOf(r.id)
                             /\ \E o \in OutRows : SameRow(o, r)

\* C11: for every output row, price_to_volume_ratio equals current_price
\* divided by total_volume when total_volume is non-zero and is null when
\* total_volume is zero; a zero volume neither makes transform_data raise
\* (the call returns a frame) nor yields an infinite ratio.
C11_RatioOrNull ==
    out.called =>
        \A o \in OutRows :
            IF o.total_volume.v = 0
            THEN o.price_to_volume_ratio.isna
            ELSE /\ ~o.price_to_volume_ratio.isna
                 /\ o.price_to_volume_ratio.den # 0
                 /\ o.price_to_volume_ratio.num * o.total_volume.v
                        = o.price_to_volume_ratio.den * o.current_price.v

\* Witness of C11: a returned frame with a zero-volume row whose ratio is
\* null and a row of non-zero volume whose ratio is price / volume
C11_Witness ==
    /\ out.called
    /\ \E o \in OutRows : o.total_volume.v = 0 /\ o.price_to_volume_ratio.isna
    /\ \E o \in OutRows : /\ o.total_volume.v # 0
                          /\ ~o.price_to_volume_ratio.isna
                          /\ o.price_to_volume_ratio.num = o.current_price.v
                          /\ o.price_to_volume_ratio.den = o.total_volume.v

-----------------------------------------------------------------------------
(* fetch_crypto_data under @retry(stop_after_attempt(3),                    *)
(* wait_exponential(multiplier=1, min=2, max=10),                           *)
(* retry_if_exception_type(HTTPError)).                                     *)

StopAfterAttempt == 3     \* stop=stop_after_attempt(3)
WaitMultiplier == 1       \* wait_exponential(multiplier=1, ...)
WaitMin == 2              \* wait_exponential(..., min=2, ...)
WaitMax == 10             \* wait_exponential(..., max=10)
PreCallSleep == 2         \* time.sleep(2)
DefaultRetryAfter == 30   \* response.headers.get("Retry-After", 30)
TooManyRequests == 429

\* What requests.get can do: raise before any response, or give a response
\* with a status code, a Retry-After header (absent, delta-seconds, or an
\* HTTP-date that lies `seconds` after the response) and a body that is JSON
\* or not.
RetryAfterHeaders ==
    {[kind |-> "absent", seconds |-> 0], [kind |-> "seconds", seconds |-> 1],
     [kind |-> "seconds", seconds |-> 60], [kind |-> "http-date", seconds |-> 60]}

GetOutcomes ==
    [raises : {"ConnectionError", "Timeout"}, status : {0},
     retry_after : {[kind |-> "absent", seconds |-> 0]}, json : {FALSE}]
    \cup [raises : {NULL}, status : {TooManyRequests}, retry_after : RetryAfterHeaders,
          json : {FALSE}]
    \cup [raises : {NULL}, status : {404, 503},
          retry_after : {[kind |-> "absent", seconds |-> 0]}, json : {FALSE}]
    \cup [raises : {NULL}, status : {200},
          retry_after : {[kind |-> "absent", seconds |-> 0]}, json : BOOLEAN]

\* One run of the function body on the outcome `g` of requests.get:
\* the sleeps it makes and the exception it raises (NULL: it returns data).
FetchBody(g) ==
    IF g.raises # NULL
        THEN [sleeps |-> <<PreCallSleep>>, waited |-> 0, raises |-> g.raises]
    ELSE IF g.status = TooManyRequests
        THEN IF g.retry_after.kind = "http-date"
                 \* int(retry_after) raises before the sleep
                 THEN [sleeps |-> <<PreCallSleep>>, waited |-> 0, raises |-> "ValueError"]
             ELSE LET retry_after == IF g.retry_after.kind = "absent"
                                         THEN DefaultRetryAfter
                                         ELSE g.retry_after.seconds
                  IN  [sleeps |-> <<PreCallSleep, retry_after>>, waited |-> retry_after,
                       raises |-> "HTTPError"]
    ELSE IF g.status >= 400
        THEN [sleeps |-> <<PreCallSleep>>, waited |-> 0, raises |-> "HTTPError"]
    ELSE IF ~g.json
        THEN [sleeps |-> <<PreCallSleep>>, waited |-> 0, raises |-> "JSONDecodeError"]
    ELSE [sleeps |-> <<PreCallSleep>>, waited |-> 0, raises |-> NULL]

\* (mutation: retry on every exception)
retry_if_any_exception(e) == TRUE

\* retry=retry_if_exception_type(HTTPError)
retry_if_exception_type(e) == e = "HTTPError"

\* stop=stop_after_attempt(3)
stop_after_attempt(n) == n >= StopAfterAttempt

RECURSIVE Pow2(_)
Pow2(n) == IF n = 0 THEN 1 ELSE 2 * Pow2(n - 1)

\* wait_exponential: max(min, min(multiplier * 2^(attempt-1), max))
wait_exponential(n) ==
    LET r == WaitMultiplier * Pow2(n - 1)
        capped == IF r < WaitMax THEN r ELSE WaitMax
    IN  IF capped > WaitMin THEN capped ELSE WaitMin

\* The caller enters the decorated function.
FetchCall ==
    /\ fetch.pc = "idle"
    /\ fetch' = [fetch EXCEPT !.pc = "attempt", !.attempt_number = 1]
    /\ UNCHANGED <<storeVars, latest_file, df, out, sdk>>

\* One attempt: the body runs to its return or raise.
FetchAttempt(g) ==
    /\ fetch.pc = "attempt"
    /\ LET b == FetchBody(g)
       IN  fetch' = [fetch EXCEPT
                !.pc = "iter",
                !.requests = @ + 1,
                !.sleeps = @ \o b.sleeps,
                !.attempts = Append(@, [status |-> g.status,
                                        retry_after |-> g.retry_after,
                                        waited |-> b.waited,
                                        raises |-> b.raises])]
    /\ UNCHANGED <<storeVars, latest_file, df, out, sdk>>

\* tenacity's decision after an attempt: return its value, re-raise its
\* exception, give up with RetryError, or sleep and attempt again.
FetchIter ==
    /\ fetch.pc = "iter"
    /\ LET e == fetch.attempts[Len(fetch.attempts)].raises
       IN  IF e = NULL
               THEN fetch' = [fetch EXCEPT !.pc = "done", !.result = Returns(<<"data">>)]
           ELSE IF ~retry_if_exception_type(e)
               THEN fetch' = [fetch EXCEPT !.pc = "done", !.result = Raises(e)]
           ELSE IF stop_after_attempt(fetch.attempt_number)
               THEN fetch' = [fetch EXCEPT !.pc = "done", !.result = Raises("RetryError")]
           ELSE fetch' = [fetch EXCEPT
                    !.pc = "attempt",
                    !.sleeps = Append(@, wait_exponential(fetch.attempt_number)),
                    !.attempt_number = @ + 1]
    /\ UNCHANGED <<storeVars, latest_file, df, out, sdk>>

InitFetch == StoreInit /\ LatestInit /\ FrameInit /\ FetchInit /\ SdkInit

NextFetch ==
    \/ FetchCall
    \/ \E g \in GetOutcomes : FetchAttempt(g)
    \/ FetchIter

SpecFetch == InitFetch /\ [][NextFetch]_vars

RetryAfterDue(h) == IF h.kind = "absent" THEN 30 ELSE h.seconds

\* C12: on every HTTP 429 response the call waits at least the duration the
\* Retry-After header gives (30 seconds when absent) before the next request,
\* and the 429 is a retryable failure: while fewer than 3 attempts have been
\* made, another attempt follows.
C12_HonorsRetryAfter ==
    \A i \in 1..Len(fetch.attempts) :
        fetch.attempts[i].status = 429 =>
            /\ fetch.attempts[i].waited >= RetryAfterDue(fetch.attempts[i].retry_after)
            /\ fetch.attempts[i].raises = "HTTPError"
            /\ (fetch.pc = "done" /\ i < 3) => Len(fetch.attempts) > i

-----------------------------------------------------------------------------
(* The scheduled pipeline.  A DAG run has the tasks extract_data and        *)
(* transform_data (the first two of the chain); a task instance calls       *)
(* run_script, which starts the script as a child process, waits for it and *)
(* raises when its return code is not 0.  The steps of a script's main are  *)
(* the points where it reads the clock, touches a bucket or the metadata    *)
(* table, or can raise; DAG runs may overlap, so processes interleave.      *)

MaxProcs == 2     \* script processes started in all, and DAG runs triggered
MaxClock == 2     \* the clock advances up to this reading

Retries == 2      \* default_args['retries']

TaskNames == {"extract_data", "transform_data"}
ScriptOf(t) == IF t = "extract_data" THEN "extract" ELSE "transform"

\* len(df) of a fetched page: empty, or the per_page=10 records asked for
RecordCounts == {0, 10}

\* What fetch_crypto_data gives main: a page of records, or an exception
\* (RetryError after its third HTTPError; main treats the exceptions that
\* fetch lets through at once in the same way)
FetchResults ==
    {[raises |-> NULL, rows |-> n] : n \in RecordCounts}
        \cup {[raises |-> "RetryError", rows |-> 0]}

NewProc(script, r) ==
    [script |-> script, dag_run |-> r,
     pc |-> IF script = "extract" THEN "fetch" ELSE "list",
     rows |-> 0, cFile |-> 0, cDate |-> 0, key |-> NoObject, latest |-> NoObject,
     start_time |-> 0, failed_at |-> NULL, e |-> NULL, returncode |-> 0]

NewTask == [state |-> "none", try_number |-> 0, pid |-> 0]

Pids == 1..Len(procs)
DagRuns == 1..Len(tasks)

\* Where a run failed is recorded as "init_metadata_db" (before the try
\* block), "log_metadata" (the SUCCESS call), or "data" (one of the
\* statements before it that fetch, check, read, transform, write or upload
\* the data).

\* The statement(s) `where` inside main's try block raised `exc`: the except
\* block runs
Caught(p, where, exc) ==
    [procs EXCEPT ![p].pc = "handler", ![p].failed_at = where, ![p].e = exc,
                  ![p].start_time = 0]

\* The process has ended: its memory is gone; what remains is its exit
\* status (and, for the record, where the run failed)
Exited(p, returncode, where) ==
    [procs EXCEPT ![p] = [NewProc(procs[p].script, procs[p].dag_run) EXCEPT
                              !.pc = "exited", !.returncode = returncode,
                              !.failed_at = where]]

\* An exception left main uncaught: traceback, exit status 1
Uncaught(p) == Exited(p, 1, procs[p].failed_at)

\* main returned: the interpreter exits with status 0
Returned(p) == Exited(p, 0, procs[p].failed_at)

Success == [prefix |-> "SUCCESS", detail |-> ""]
Failed(exc) == [prefix |-> "FAILED:", detail |-> exc]
NoPath == [bucket |-> "", key |-> NoObject]

\* (mutation: INSERT OR REPLACE on a fixed id: the new row takes the place
\* of the table's last row)
log_metadata_replacing(logs, clock, p, source_api, record_count, status, s3_path) ==
    (IF logs = <<>> THEN logs ELSE SubSeq(logs, 1, Len(logs) - 1))
        \o <<[id |-> IF logs = <<>> THEN 1 ELSE Len(logs), run_timestamp |-> clock,
              source_api |-> source_api, record_count |-> record_count,
              status |-> status, s3_path |-> s3_path, by |-> p]>>

\* log_metadata: INSERT one row (id is AUTOINCREMENT) and commit
log_metadata(logs, clock, p, source_api, record_count, status, s3_path) ==
    Append(logs, [id |-> Len(logs) + 1, run_timestamp |-> clock,
                  source_api |-> source_api, record_count |-> record_count,
                  status |-> status, s3_path |-> s3_path, by |-> p])

\* The INSERT raises sqlite3.OperationalError when the table is missing or
\* the database cannot be written (locked, disk full)
CanInsert(db_ok) == table_exists /\ db_ok

\* (mutation: the upload returns without storing the object)
put_nothing(bucket, o, content) == bucket

\* s3 put of `content` under the key of object `o`: a new object, or a new
\* version of the object that has this key
PutObject(bucket, o, content) ==
    IF KeyOf(o) \in KeysOf(bucket)
    THEN [bucket EXCEPT ![ObjectAt(bucket, KeyOf(o))] =
              [content EXCEPT !.versions = bucket[ObjectAt(bucket, KeyOf(o))].versions + 1]]
    ELSE bucket @@ (o :> content)

-----------------------------------------------------------------------------
(* Clock and scheduler                                                      *)

\* Every step of a script reads the clock (utcnow, time.time); the time
\* that has passed since the clock was last read is part of the step.
Elapsed == 0..(MaxClock - now)

\* schedule_interval fires, or the DAG is triggered by hand.  (A DAG run is
\* numbered when its first task starts: runs that have started nothing are
\* interchangeable.)
DagTrigger ==
    /\ Len(tasks) < MaxProcs
    /\ \A r \in DagRuns : tasks[r]["extract_data"].try_number >= 1
    /\ tasks' = Append(tasks, [t \in TaskNames |-> NewTask])
    /\ UNCHANGED <<bronze, silver, now, extraction_logs, table_exists, procs,
                   latest_file, df, out, fetch, sdk>>

UpstreamDone(r, t) ==
    t = "transform_data" => tasks[r]["extract_data"].state = "success"

\* run_script raises when returncode != 0; the task is retried while it has
\* tries left, else failed
TaskStateAfter(returncode, try_number) ==
    IF returncode = 0 THEN "success"
    ELSE IF try_number <= Retries THEN "up_for_retry"
    ELSE "failed"

TaskOf(p) == IF procs[p].script = "extract" THEN "extract_data" ELSE "transform_data"

\* subprocess.run returns as the child p exits with `returncode`; run_script
\* raises or returns, which ends the task instance
RunScriptReturn(p, returncode) ==
    [tasks EXCEPT ![procs[p].dag_run][TaskOf(p)].state =
         TaskStateAfter(returncode, tasks[procs[p].dag_run][TaskOf(p)].try_number)]

-----------------------------------------------------------------------------
(* extract_coingecko.main                                                   *)

IsAt(p, script, pc) == procs[p].script = script /\ procs[p].pc = pc

\* The task instance starts: run_script launches the script process.  The
\* extract script's main begins with init_metadata_db(), before its try
\* block: CREATE TABLE IF NOT EXISTS, whose sqlite3 error ends the process
\* with a traceback; then start_time = time.time().  (start_time is kept
\* until the fetch has slept; the runtime computed from it later is not
\* modelled.)
RunScriptStart(r, t, db_ok, d) ==
    /\ tasks[r][t].state \in {"none", "up_for_retry"}
    /\ UpstreamDone(r, t)
    /\ Len(procs) < MaxProcs
    /\ LET p == Len(procs) + 1
           started == Append(procs, [NewProc(ScriptOf(t), r) EXCEPT
                                        !.start_time = IF t = "extract_data"
                                                       THEN now + d ELSE 0])
           running == [tasks EXCEPT ![r][t] = [state |-> "running",
                                               try_number |-> @.try_number + 1,
                                               pid |-> p]]
       IN  IF t = "transform_data"
           THEN /\ procs' = started
                /\ tasks' = running
                /\ UNCHANGED table_exists
           ELSE IF db_ok
           THEN /\ procs' = started
                /\ tasks' = running
                /\ table_exists' = TRUE
           ELSE /\ procs' = [started EXCEPT ![p].pc = "exited", ![p].returncode = 1,
                                            ![p].failed_at = "init_metadata_db",
                                            ![p].start_time = 0]
                /\ tasks' = [running EXCEPT ![r][t].state =
                                 TaskStateAfter(1, running[r][t].try_number)]
                /\ UNCHANGED table_exists
    /\ now' = now + d
    /\ UNCHANGED <<bronze, silver, extraction_logs,
                   latest_file, df, out, fetch, sdk>>

\* fetch_crypto_data begins every attempt with time.sleep(2): the clock
\* readings modelled are at least that far apart, so the fetch ends at a
\* later reading than the one main started at
Slept(p, d) == now + d > procs[p].start_time

\* data = fetch_crypto_data(); df = pd.DataFrame(data)[[...]] (KeyError on an
\* empty page: the frame has no columns); if df.empty: raise ValueError;
\* filename = f"data/bronze/crypto_data_{utcnow:%Y%m%d_%H%M%S}.csv"; df.to_csv
ExtractFetchSave(p, res, ok, d) ==
    /\ IsAt(p, "extract", "fetch")
    /\ Slept(p, d)
    /\ procs' = IF res.raises # NULL THEN Caught(p, "data", res.raises)
                ELSE IF res.rows = 0 THEN Caught(p, "data", "KeyError")
                ELSE IF ~ok THEN Caught(p, "data", "OSError")
                ELSE [procs EXCEPT ![p].pc = "upload", ![p].rows = res.rows,
                                   ![p].cFile = now + d, ![p].start_time = 0]
    /\ now' = now + d
    /\ UNCHANGED <<bronze, silver, extraction_logs, table_exists, tasks,
                   latest_file, df, out, fetch, sdk>>

\* What upload_to_s3 can do under its retry decorator: upload, or give up
\* with RetryError after three ClientErrors
UploadOutcomes == {"ok", "RetryError"}

\* ingest_date = utcnow; s3_key = ...; upload_to_s3(filename, s3_key)
ExtractUpload(p, u, d) ==
    /\ IsAt(p, "extract", "upload")
    /\ LET s3_key == CsvObject("bronze", now + d, procs[p].cFile)
       IN  IF u = "ok"
           THEN /\ bronze' = PutObject(bronze, s3_key,
                                 [by |-> p, stamp |-> procs[p].cFile,
                                  rows |-> procs[p].rows, versions |-> 1])
                /\ procs' = [procs EXCEPT ![p].pc = "log", ![p].cDate = now + d,
                                          ![p].key = s3_key]
           ELSE /\ procs' = Caught(p, "data", u)
                /\ UNCHANGED bronze
    /\ now' = now + d
    /\ UNCHANGED <<silver, extraction_logs, table_exists, tasks,
                   latest_file, df, out, fetch, sdk>>

\* log_metadata("CoinGecko", len(df), "SUCCESS", s3_key, runtime), then main
\* returns
ExtractLogSuccess(p, db_ok, d) ==
    /\ IsAt(p, "extract", "log")
    /\ IF CanInsert(db_ok)
       THEN /\ extraction_logs' = log_metadata(extraction_logs, now + d, p, "CoinGecko",
                    procs[p].rows, Success, [bucket |-> "", key |-> procs[p].key])
            /\ procs' = Returned(p)
            /\ tasks' = RunScriptReturn(p, 0)
       ELSE /\ procs' = Caught(p, "log_metadata", "OperationalError")
            /\ UNCHANGED <<extraction_logs, tasks>>
    /\ now' = now + d
    /\ UNCHANGED <<bronze, silver, table_exists,
                   latest_file, df, out, fetch, sdk>>

\* (mutation: the handler logs the number of records fetched)
ExtractFailureCountMutant(p) == procs[p].rows + 1

\* record_count logged by the except block
ExtractFailureCount(p) == 0

\* except Exception as e: log_metadata("CoinGecko", 0, f"FAILED: {e}", None,
\* runtime); an exception of this call leaves main uncaught
ExtractHandler(p, db_ok, d) ==
    /\ IsAt(p, "extract", "handler")
    /\ IF CanInsert(db_ok)
       THEN /\ extraction_logs' = log_metadata(extraction_logs, now + d, p, "CoinGecko",
                    ExtractFailureCount(p), Failed(procs[p].e), NoPath)
            /\ procs' = Returned(p)
            /\ tasks' = RunScriptReturn(p, 0)
       ELSE /\ procs' = Uncaught(p)
            /\ tasks' = RunScriptReturn(p, 1)
            /\ UNCHANGED extraction_logs
    /\ now' = now + d
    /\ UNCHANGED <<bronze, silver, table_exists,
                   latest_file, df, out, fetch, sdk>>

-----------------------------------------------------------------------------
(* transform_coingecko.main                                                 *)

\* A statement inside main's try block raised `exc`; the except block logs
\* to the log file, prints, and main returns
TransformCaught(p, where, exc) == Exited(p, 0, where)

\* latest_file = get_latest_bronze_file(); obj = s3.get_object(...);
\* df = pd.read_csv(obj["Body"]); transformed_df = transform_data(df), which
\* keeps `kept` of the rows; upload_to_silver: ingest_date = utcnow
TransformLoad(p, listed, got, kept, d) ==
    /\ IsAt(p, "transform", "list")
    /\ LET r == get_latest_bronze_file(bronze)
       IN  procs' =
               IF ~listed THEN TransformCaught(p, "data", "ClientError")
               ELSE IF r.raises # NULL THEN TransformCaught(p, "data", r.raises)
               ELSE IF ~got THEN TransformCaught(p, "data", "ClientError")
               ELSE [procs EXCEPT ![p].pc = "put",
                         ![p].latest = ObjectAt(bronze, r.value),
                         ![p].rows = IF kept <= bronze[ObjectAt(bronze, r.value)].rows
                                     THEN kept
                                     ELSE bronze[ObjectAt(bronze, r.value)].rows,
                         ![p].cDate = now + d]
    /\ tasks' = IF procs'[p].pc = "exited" THEN RunScriptReturn(p, 0) ELSE tasks
    /\ now' = now + d
    /\ UNCHANGED <<bronze, silver, extraction_logs, table_exists,
                   latest_file, df, out, fetch, sdk>>

\* (mutation: put_object with Bucket=BRONZE_BUCKET)
put_object_into_bronze(o, content) ==
    [bronze |-> PutObject(bronze, o, content), silver |-> silver]

\* s3.put_object(Bucket=SILVER_BUCKET, Key=s3_key, Body=...): the two buckets
\* after the call
put_object_silver(o, content) ==
    [bronze |-> bronze, silver |-> PutObject(silver, o, content)]

\* upload_to_silver: filename from a second utcnow; s3.put_object
TransformPut(p, ok, d) ==
    /\ IsAt(p, "transform", "put")
    /\ LET s3_key == CsvObject("silver", procs[p].cDate, now + d)
           after == put_object_silver(s3_key,
                        [by |-> p, stamp |-> now + d, rows |-> procs[p].rows,
                         versions |-> 1])
       IN  IF ok
           THEN /\ silver' = after.silver
                /\ bronze' = after.bronze
                /\ procs' = [procs EXCEPT ![p].pc = "log", ![p].cFile = now + d,
                                          ![p].key = s3_key]
                /\ UNCHANGED tasks
           ELSE /\ procs' = TransformCaught(p, "data", "ClientError")
                /\ tasks' = RunScriptReturn(p, 0)
                /\ UNCHANGED <<bronze, silver>>
    /\ now' = now + d
    /\ UNCHANGED <<extraction_logs, table_exists,
                   latest_file, df, out, fetch, sdk>>

\* log_metadata(source_api="coingecko_silver", ..., status="SUCCESS", ...)
TransformLogSuccess(p, db_ok, d) ==
    /\ IsAt(p, "transform", "log")
    /\ IF CanInsert(db_ok)
       THEN /\ extraction_logs' = log_metadata(extraction_logs, now + d, p,
                    "coingecko_silver", procs[p].rows, Success,
                    [bucket |-> "s3://SILVER_BUCKET/", key |-> procs[p].key])
            /\ procs' = Returned(p)
       ELSE /\ procs' = TransformCaught(p, "log_metadata", "OperationalError")
            /\ UNCHANGED extraction_logs
    /\ tasks' = RunScriptReturn(p, 0)
    /\ now' = now + d
    /\ UNCHANGED <<bronze, silver, table_exists,
                   latest_file, df, out, fetch, sdk>>

-----------------------------------------------------------------------------
Init == StoreInit /\ LatestInit /\ FrameInit /\ FetchInit /\ SdkInit

Next ==
    \/ DagTrigger
    \/ \E r \in DagRuns, t \in TaskNames, db_ok \in BOOLEAN, d \in Elapsed :
           RunScriptStart(r, t, db_ok, d)
    \/ \E p \in Pids, res \in FetchResults, ok \in BOOLEAN, d \in Elapsed :
           ExtractFetchSave(p, res, ok, d)
    \/ \E p \in Pids, u \in UploadOutcomes, d \in Elapsed : ExtractUpload(p, u, d)
    \/ \E p \in Pids, db_ok \in BOOLEAN, d \in Elapsed : ExtractLogSuccess(p, db_ok, d)
    \/ \E p \in Pids, db_ok \in BOOLEAN, d \in Elapsed : ExtractHandler(p, db_ok, d)
    \/ \E p \in Pids, listed \in BOOLEAN, got \in BOOLEAN, kept \in RecordCounts,
          d \in Elapsed : TransformLoad(p, listed, got, kept, d)
    \/ \E p \in Pids, ok \in BOOLEAN, d \in Elapsed : TransformPut(p, ok, d)
    \/ \E p \in Pids, db_ok \in BOOLEAN, d \in Elapsed : TransformLogSuccess(p, db_ok, d)

Spec == Init /\ [][Next]_vars


-----------------------------------------------------------------------------
(* Claims about the pipeline                                                *)

\* The rows of extraction_logs that process p inserted
RowsBy(p) == {i \in 1..Len(extraction_logs) : extraction_logs[i].by = p}

Ended(p) == procs[p].pc = "exited"

\* C2: any failure inside the extract or transform script is terminal for the
\* pipeline step: the process ends with a non-zero exit status, run_script
\* raises, and the task is not seen as successful.
C2_FailureIsTerminal ==
    \A p \in Pids :
        (Ended(p) /\ procs[p].failed_at # NULL) =>
            /\ procs[p].returncode # 0
            /\ tasks[procs[p].dag_run][TaskOf(p)].pid = p =>
                   tasks[procs[p].dag_run][TaskOf(p)].state \in {"up_for_retry", "failed"}

C7_OneRowPerInvocation ==
    \A p \in Pids : Ended(p) => Cardinality(RowsBy(p)) = 1

\* C8: a bronze object is immutable once written: no later or overlapping
\* run writes to the same key again.
C8_BronzeNeverRewritten ==
    \A o \in DOMAIN bronze : bronze[o].versions = 1

\* The rows of extraction_logs an extraction run wrote with status SUCCESS
SuccessRowsOfExtract ==
    {i \in 1..Len(extraction_logs) :
        /\ extraction_logs[i].status = Success
        /\ procs[extraction_logs[i].by].script = "extract"}

\* C25: an extraction run's SUCCESS row exists only once upload_to_s3 has
\* stored that run's CSV: the row's s3_path is the key the run uploaded, the
\* object under that key is in the bronze bucket, and record_count is the
\* number of data rows of the CSV the run uploaded (as long as no other run
\* has put a new version under the same key).
C25_SuccessRowNamesUploadedObject ==
    \A i \in SuccessRowsOfExtract :
        LET row == extraction_logs[i]
        IN  \E o \in DOMAIN bronze :
                /\ \/ o = row.s3_path.key
                   \/ bronze[o].versions > 1 /\ KeyOf(o) = KeyOf(row.s3_path.key)
                /\ IF bronze[o].by = row.by
                   THEN /\ bronze[o].rows = row.record_count
                        /\ bronze[o].stamp = row.s3_path.key.cFile
                   ELSE bronze[o].versions > 1

\* An extraction run has logged SUCCESS for the object it uploaded
C25_Witness ==
    \E i \in SuccessRowsOfExtract : \E o \in DOMAIN bronze :
        /\ bronze[o].by = extraction_logs[i].by
        /\ KeyOf(o) = KeyOf(extraction_logs[i].s3_path.key)
        /\ extraction_logs[i].record_count = bronze[o].rows
        /\ bronze[o].rows > 0


\* Every row that exists stays, in place and with all its column values
RowsKept ==
    /\ Len(extraction_logs') >= Len(extraction_logs)
    /\ SubSeq(extraction_logs', 1, Len(extraction_logs)) = extraction_logs

\* Process p makes a log_metadata call in this step: the SUCCESS call of
\* either main, or the FAILED call of extract's except block
LogMetadataCall(p) ==
    /\ procs[p].pc \in {"log", "handler"}
    /\ procs'[p].pc # procs[p].pc

\* ... and the call returns (it has not raised sqlite3.OperationalError)
LogMetadataReturns(p) ==
    IF procs[p].pc = "log" THEN procs'[p].failed_at = NULL
    ELSE procs'[p].returncode = 0

\* C14 (as stated): extraction_logs is append-only: every existing row keeps
\* its values and is never deleted, init_metadata_db on an existing table
\* removes nothing, and each log_metadata call adds exactly one new row.
C14_AppendOnlyOnePerCall ==
    [][/\ RowsKept
       /\ \A p \in Pids :
              LogMetadataCall(p) => Len(extraction_logs') = Len(extraction_logs) + 1]_vars

\* C14 (amended): the same, where each log_metadata call that returns adds
\* exactly one new row and a call that raises adds none; no other step,
\* init_metadata_db included, changes the table.
C14_AppendOnly ==
    [][/\ RowsKept
       /\ \A p \in Pids :
              LogMetadataCall(p) =>
                  IF LogMetadataReturns(p)
                  THEN /\ Len(extraction_logs') = Len(extraction_logs) + 1
                       /\ extraction_logs'[Len(extraction_logs')].by = p
                  ELSE extraction_logs' = extraction_logs
       /\ (\A p \in Pids : ~LogMetadataCall(p)) => extraction_logs' = extraction_logs]_vars

\* Witness of C14: two log_metadata calls of different processes have each
\* added their row, the first one still in place
C14_Witness ==
    /\ Len(extraction_logs) = 2
    /\ extraction_logs[1].id = 1 /\ extraction_logs[2].id = 2
    /\ extraction_logs[1].by # extraction_logs[2].by

\* A transform process takes a step (its start included)
TransformStep ==
    \/ \E p \in Pids : procs[p].script = "transform" /\ procs'[p] # procs[p]
    \/ /\ Len(procs') > Len(procs)
       /\ procs'[Len(procs')].script = "transform"

\* C15: a transform run, whether it succeeds or fails at any point, changes
\* nothing in the bronze bucket: every object an extraction uploaded is still
\* there with the same content.
C15_TransformLeavesBronze ==
    [][TransformStep => bronze' = bronze]_vars

\* Witness of C15: a transform run has ended after writing its object to
\* silver, with the object it read still in the bronze bucket
C15_Witness ==
    \E p \in Pids :
        /\ procs[p].script = "transform" /\ Ended(p)
        /\ \E o \in DOMAIN silver : silver[o].by = p
        /\ \E o \in DOMAIN bronze : bronze[o].versions = 1

-----------------------------------------------------------------------------
(* The shape of the keys written.  SpecKeys follows one upload per layer    *)
(* for every pair of clock readings the two strftime calls can see.         *)

\* extract main: filename stamped at cFile, then ingest_date read at cDate,
\* then upload_to_s3(filename, s3_key)
KeysUploadBronze(cFile, cDate) ==
    /\ cFile <= cDate
    /\ DOMAIN bronze = {}
    /\ bronze' = PutObject(bronze, CsvObject("bronze", cDate, cFile),
                           [by |-> 0, stamp |-> cFile, rows |-> 1, versions |-> 1])
    /\ UNCHANGED <<silver, now, extraction_logs, table_exists, procs, tasks,
                   latest_file, df, out, fetch, sdk>>

\* upload_to_silver: ingest_date read at cDate, then the filename stamped at
\* cFile, then s3.put_object
KeysUploadSilver(cDate, cFile) ==
    /\ cDate <= cFile
    /\ DOMAIN silver = {}
    /\ silver' = PutObject(silver, CsvObject("silver", cDate, cFile),
                           [by |-> 0, stamp |-> cFile, rows |-> 1, versions |-> 1])
    /\ UNCHANGED <<bronze, now, extraction_logs, table_exists, procs, tasks,
                   latest_file, df, out, fetch, sdk>>

InitKeys == StoreInit /\ LatestInit /\ FrameInit /\ FetchInit /\ SdkInit

NextKeys ==
    \/ \E cFile \in Clocks, cDate \in Clocks : KeysUploadBronze(cFile, cDate)
    \/ \E cDate \in Clocks, cFile \in Clocks : KeysUploadSilver(cDate, cFile)

SpecKeys == InitKeys /\ [][NextKeys]_vars

\* s.split("/")
RECURSIVE SplitPath(_)
SplitPath(s) ==
    LET slashes == {i \in 1..Len(s) : s[i] = "/"}
    IN  IF slashes = {} THEN <<s>>
        ELSE LET i == CHOOSE j \in slashes : \A k \in slashes : j <= k
             IN  <<SubSeq(s, 1, i - 1)>> \o SplitPath(SubSeq(s, i + 1, Len(s)))

IsDigits(s) == \A i \in 1..Len(s) : s[i] \in {"0", "1", "2", "3", "4", "5", "6", "7", "8", "9"}

StartsWith(s, prefix) == Len(s) >= Len(prefix) /\ SubSeq(s, 1, Len(prefix)) = prefix

\* YYYY-MM-DD
IsDateText(s) ==
    /\ Len(s) = 10
    /\ s[5] = "-" /\ s[8] = "-"
    /\ IsDigits(SubSeq(s, 1, 4)) /\ IsDigits(SubSeq(s, 6, 7)) /\ IsDigits(SubSeq(s, 9, 10))

\* YYYYMMDD_HHMMSS
IsStampText(s) ==
    /\ Len(s) = 15
    /\ s[9] = "_"
    /\ IsDigits(SubSeq(s, 1, 8)) /\ IsDigits(SubSeq(s, 10, 15))

\* {layer}/crypto/ingest_date=<YYYY-MM-DD>/<stem><YYYYMMDD_HHMMSS>.csv, and
\* no other path segment
KeyHasForm(k, layer, stem) ==
    LET seg == SplitPath(k)
    IN  /\ Len(seg) = 4
        /\ seg[1] = layer
        /\ seg[2] = <<"c", "r", "y", "p", "t", "o">>
        /\ StartsWith(seg[3], IngestDateEq)
        /\ IsDateText(SubSeq(seg[3], Len(IngestDateEq) + 1, Len(seg[3])))
        /\ StartsWith(seg[4], stem)
        /\ EndsWith(seg[4], CsvExt)
        /\ IsStampText(SubSeq(seg[4], Len(stem) + 1, Len(seg[4]) - Len(CsvExt)))

\* C13: every key written has exactly the form
\* {layer}/crypto/ingest_date=<YYYY-MM-DD>/<filename>: extraction writes
\* bronze/crypto/ingest_date=<date>/<basename of the CSV it just wrote>, the
\* transform writes
\* silver/crypto/ingest_date=<date>/crypto_data_cleaned_<YYYYMMDD_HHMMSS>.csv.
C13_KeysHaveTheForm ==
    /\ \A o \in DOMAIN bronze :
           /\ KeyHasForm(KeyOf(o), <<"b", "r", "o", "n", "z", "e">>,
                         <<"c", "r", "y", "p", "t", "o", "_", "d", "a", "t", "a", "_">>)
           /\ SplitPath(KeyOf(o))[4] = BronzeFileName(bronze[o].stamp)
    /\ \A o \in DOMAIN silver :
           KeyHasForm(KeyOf(o), <<"s", "i", "l", "v", "e", "r">>,
                      <<"c", "r", "y", "p", "t", "o", "_", "d", "a", "t", "a", "_",
                        "c", "l", "e", "a", "n", "e", "d", "_">>)

\* Witness of C13: an extraction and a transform have each written an object
C13_Witness == DOMAIN bronze # {} /\ DOMAIN silver # {}

\* C28: in every bronze key an extraction run uploads, the date of the
\* ingest_date=YYYY-MM-DD partition is the calendar date of the YYYYMMDD in
\* the file name, whenever the run executes.
C28_PartitionDateIsFileDate ==
    \A o \in DOMAIN bronze :
        LET seg == SplitPath(KeyOf(o))
            ingest_date == SubSeq(seg[3], Len(IngestDateEq) + 1, Len(seg[3]))
            stem == <<"c", "r", "y", "p", "t", "o", "_", "d", "a", "t", "a", "_">>
            file_date == SubSeq(seg[4], Len(stem) + 1, Len(stem) + 8)
            IsDigit(c) == c # "-"
        IN  SelectSeq(ingest_date, IsDigit) = file_date


-----------------------------------------------------------------------------
(* sagemaker_studio: LocalExecutionClient.stop_execution against the local  *)
(* jobs scheduler.  sdk holds the scheduler's job, the requests the client  *)
(* has sent, the status the client read and how the call ended.             *)

\* models.execution.Status
LocalStatuses ==
    {"CREATED", "QUEUED", "IN_PROGRESS", "COMPLETED", "FAILED", "STOPPING", "STOPPED"}

LocalExecutionTerminalStatusesWithOutputFiles == {"COMPLETED", "FAILED"}

\* (mutation: every status counts as stoppable)
StoppableStatusesAll == LocalStatuses

LocalExecutionStoppableStatuses == {"CREATED", "QUEUED", "IN_PROGRESS"}

\* The job the execution id names at the scheduler, or none
LocalJobs ==
    [exists : {TRUE}, status : LocalStatuses, downloaded : BOOLEAN]
        \cup {[exists |-> FALSE, status |-> "CREATED", downloaded |-> FALSE]}

Pending == [done |-> FALSE, raises |-> NULL]
Ends(e) == [done |-> TRUE, raises |-> e]

InitLocalStop ==
    /\ StoreInit /\ LatestInit /\ FrameInit /\ FetchInit
    /\ sdk \in [api : {"LocalExecutionClient.stop_execution"}, pc : {"cookies"},
                job : LocalJobs, status_read : {NULL}, sent : {<<>>},
                result : {Pending}]

\* self.xsrf = self.__set_cookies(): RuntimeError when the lab page answers
\* not ok or carries no single _xsrf cookie
LocalSetCookies(c) ==
    /\ sdk.pc = "cookies"
    /\ sdk' = IF c = "ok" THEN [sdk EXCEPT !.pc = "get"]
              ELSE [sdk EXCEPT !.pc = "done", !.result = Ends("RuntimeError")]
    /\ UNCHANGED etlVars

\* get_api_error: 404 -> ResourceNotFoundError, 409 -> ConflictError, any
\* other failure -> InternalServerError
get_api_error(http_status_code) ==
    IF http_status_code = 404 THEN "ResourceNotFoundError"
    ELSE IF http_status_code = 409 THEN "ConflictError"
    ELSE "InternalServerError"

\* _get_execution_internal(...).get("status"): GET the job; for a COMPLETED
\* or FAILED job whose files are not downloaded yet, download them and GET
\* again.  `g` is the scheduler's answer to the first GET (200, or an error
\* status), `d` whether the download works.
LocalGetExecution(g, d) ==
    /\ sdk.pc = "get"
    /\ sdk' =
         IF ~sdk.job.exists
         THEN [sdk EXCEPT !.pc = "done", !.sent = Append(@, "GET"),
                          !.result = Ends(get_api_error(404))]
         ELSE IF g # 200
         THEN [sdk EXCEPT !.pc = "done", !.sent = Append(@, "GET"),
                          !.result = Ends(get_api_error(g))]
         ELSE IF sdk.job.status \in LocalExecutionTerminalStatusesWithOutputFiles
                  /\ ~sdk.job.downloaded
         THEN IF d
              THEN [sdk EXCEPT !.pc = "check", !.job.downloaded = TRUE,
                               !.sent = @ \o <<"GET", "GET download_files", "GET">>,
                               !.status_read = sdk.job.status]
              ELSE [sdk EXCEPT !.pc = "done",
                               !.sent = @ \o <<"GET", "GET download_files">>,
                               !.result = Ends(get_api_error(0))]
         ELSE [sdk EXCEPT !.pc = "check", !.sent = Append(@, "GET"),
                          !.status_read = sdk.job.status]
    /\ UNCHANGED etlVars

\* if get_execution_status not in LocalExecutionStoppableStatuses.__members__:
\*     raise ConflictError
LocalStopCheck ==
    /\ sdk.pc = "check"
    /\ sdk' = IF sdk.status_read \notin LocalExecutionStoppableStatuses
              THEN [sdk EXCEPT !.pc = "done", !.result = Ends("ConflictError")]
              ELSE [sdk EXCEPT !.pc = "patch"]
    /\ UNCHANGED etlVars

\* fetch_data(url, method PATCH, body {"status": "STOPPED"}); the scheduler
\* answers 204 and stops the job, or answers with an error status
LocalPatch(r) ==
    /\ sdk.pc = "patch"
    /\ sdk' = IF r = 204
              THEN [sdk EXCEPT !.pc = "done", !.sent = Append(@, "PATCH STOPPED"),
                               !.job.status = "STOPPED", !.result = Ends(NULL)]
              ELSE [sdk EXCEPT !.pc = "done", !.sent = Append(@, "PATCH STOPPED"),
                               !.result = Ends(get_api_error(r))]
    /\ UNCHANGED etlVars

\* The scheduler runs the job while the client works
LocalJobAdvances ==
    /\ sdk.pc # "done"
    /\ sdk.job.exists
    /\ \E next \in LocalStatuses :
          /\ \/ sdk.job.status = "CREATED" /\ next = "QUEUED"
             \/ sdk.job.status = "QUEUED" /\ next = "IN_PROGRESS"
             \/ sdk.job.status = "IN_PROGRESS" /\ next \in {"COMPLETED", "FAILED"}
             \/ sdk.job.status = "STOPPING" /\ next = "STOPPED"
          /\ sdk' = [sdk EXCEPT !.job.status = next]
    /\ UNCHANGED etlVars

NextLocalStop ==
    \/ \E c \in {"ok", "not ok", "no cookie"} : LocalSetCookies(c)
    \/ \E g \in {200, 500}, d \in BOOLEAN : LocalGetExecution(g, d)
    \/ LocalStopCheck
    \/ \E r \in {204, 404, 500} : LocalPatch(r)
    \/ LocalJobAdvances

SpecLocalStop == InitLocalStop /\ [][NextLocalStop]_vars

PatchSent == \E i \in 1..Len(sdk.sent) : sdk.sent[i] = "PATCH STOPPED"

C27_PatchOnlyStopsStoppableJob ==
    [][(sdk'.sent # sdk.sent /\ sdk.pc = "patch"
            /\ sdk.job.status \in {"COMPLETED", "FAILED", "STOPPED"})
          => sdk'.job.status = sdk.job.status]_vars


-----------------------------------------------------------------------------
(* sagemaker_studio: RemoteExecutionClient.  One call on a fresh client:    *)
(* sdk holds the client's config, the call's arguments, the training job    *)
(* the call targets, the requests sent to the services and how the call     *)
(* ended.                                                                   *)

MaxNameLen == 2           \* execution names of every length up to this one
PatternTail == 25         \* {0,25} of the execution name pattern

AlnumChars ==
    {"a", "b", "c", "d", "e", "f", "g", "h", "i", "j", "k", "l", "m", "n", "o",
     "p", "q", "r", "s", "t", "u", "v", "w", "x", "y", "z",
     "A", "B", "C", "D", "E", "F", "G", "H", "I", "J", "K", "L", "M", "N", "O",
     "P", "Q", "R", "S", "T", "U", "V", "W", "X", "Y", "Z",
     "0", "1", "2", "3", "4", "5", "6", "7", "8", "9"}

RECURSIVE Repeat(_, _)
Repeat(c, n) == IF n = 0 THEN <<>> ELSE <<c>> \o Repeat(c, n - 1)

\* execution_name.replace("_", "-")
ReplaceUnderscores(name) ==
    [i \in 1..Len(name) |-> IF name[i] = "_" THEN "-" ELSE name[i]]

\* The whole of `t` is [a-zA-Z0-9]([-a-zA-Z0-9]){0,25}
PatternBody(t) ==
    /\ Len(t) >= 1
    /\ t[1] \in AlnumChars
    /\ Len(t) - 1 <= PatternTail
    /\ \A i \in 2..Len(t) : t[i] \in AlnumChars \cup {"-"}

\* re.match(r"^[a-zA-Z0-9]([-a-zA-Z0-9]){0,25}$", execution_name): "^" is the
\* start of the string, "$" its end or the place before a newline that ends
\* it.
execution_name_matches(name) ==
    \/ PatternBody(name)
    \/ /\ Len(name) >= 1
       /\ name[Len(name)] = "\n"
       /\ PatternBody(SubSeq(name, 1, Len(name) - 1))

NameAlphabet == {"a", "Z", "7", "-", "_", "!", "\n"}

ExecutionNames ==
    UNION {[1..n -> NameAlphabet] : n \in 0..MaxNameLen}
        \cup {Repeat("b", 26), Repeat("b", 27), Repeat("b", 25) \o <<"\n">>,
              <<"a", "-", "v", "a", "l", "i", "d", "_", "n", "a", "m", "e">>}

\* TrainingJobStatus, as ExecutionUtils.map_training_job_status_to_status
\* knows it
TrainingJobStatuses == {"InProgress", "Completed", "Failed", "Stopping", "Stopped"}

NoJob == "absent"

\* (mutation: only the domain identifier is required)
IdentifiersMissingDomainOnly(config) ==
    config.domain_identifier \in {NULL, ""}

\* not self.config.domain_identifier or not self.config.project_identifier
IdentifiersMissing(config) ==
    \/ config.domain_identifier \in {NULL, ""}
    \/ config.project_identifier \in {NULL, ""}

ExecutionConfigs ==
    [domain_identifier : {NULL, "", "domain_123"},
     project_identifier : {NULL, "", "project_123"},
     datazone_environment_id : {NULL, "env_123"}]

NoResponse == [code |-> NULL, message |-> <<>>, http_status_code |-> 0]
ClientError(code, message, http_status_code) ==
    [code |-> code, message |-> message, http_status_code |-> http_status_code]

RemoteCall(api, config, name, job) ==
    [api |-> api, pc |-> "call", config |-> config, execution_name |-> name,
     job |-> job, seen |-> NULL, response |-> NoResponse, requests |-> <<>>,
     result |-> Pending]

InitRemote ==
    /\ StoreInit /\ LatestInit /\ FrameInit /\ FetchInit
    /\ \E config \in ExecutionConfigs :
          \/ \E name \in ExecutionNames :
                sdk = RemoteCall("start_execution", config, name, NoJob)
          \/ \E job \in TrainingJobStatuses \cup {NoJob} :
                \E api \in {"get_execution", "stop_execution"} :
                    sdk = RemoteCall(api, config, <<>>, job)
          \/ sdk = RemoteCall("list_executions", config, <<>>, NoJob)

\* The public method: builds the request; start_execution first replaces
\* the underscores of the name
RemoteApiCall ==
    /\ sdk.pc = "call"
    /\ sdk' = [sdk EXCEPT !.pc = "setup",
                          !.execution_name =
                              IF sdk.api = "start_execution"
                              THEN ReplaceUnderscores(@) ELSE @]
    /\ UNCHANGED etlVars

\* __setup_execution_client, the checks on the config
RemoteSetupConfig ==
    /\ sdk.pc = "setup"
    /\ sdk' = IF IdentifiersMissing(sdk.config)
              THEN [sdk EXCEPT !.pc = "done", !.result = Ends("InternalServerError")]
              ELSE IF sdk.config.datazone_environment_id \in {NULL, ""}
              THEN [sdk EXCEPT !.pc = "done", !.result = Ends("InternalServerError")]
              ELSE [sdk EXCEPT !.pc = "environment"]
    /\ UNCHANGED etlVars

\* __setup_execution_client, the rest: the default tooling environment and
\* the SageMaker environment are asked of DataZone through the project
\* service, the three boto3 clients are built and the stack is read from the
\* environment
RemoteSetupEnvironment(e) ==
    /\ sdk.pc = "environment"
    /\ sdk' = IF e = "ok"
              THEN [sdk EXCEPT !.pc = sdk.api,
                               !.requests = @ \o <<"DataZone.default_environment",
                                                   "DataZone.sagemaker_environment">>]
              ELSE IF e = "ValueError"
              THEN [sdk EXCEPT !.pc = "done",
                               !.requests = Append(@, "DataZone.default_environment"),
                               !.result = Ends("ValueError")]
              ELSE [sdk EXCEPT !.pc = "done",
                               !.requests = @ \o <<"DataZone.default_environment",
                                                   "DataZone.sagemaker_environment">>,
                               !.result = Ends("RuntimeError")]
    /\ UNCHANGED etlVars

\* "phrase in message", both as sequences of tokens
Contains(message, phrase) ==
    \E i \in 0..(Len(message) - Len(phrase)) :
        SubSeq(message, i + 1, i + Len(phrase)) = phrase

RejectedInStatus(status) ==
    <<"The request was rejected because the training job is in status", status>>

ResourceNotFoundMessage == <<"Requested resource not found.">>

\* What StopTrainingJob answers for the job
StopTrainingJobAnswers(job) ==
    {ClientError("ThrottlingException", <<"Rate exceeded">>, 400)} \cup
    IF job = NoJob
    THEN {ClientError("ValidationException", ResourceNotFoundMessage, 400)}
    ELSE IF job = "InProgress" THEN {NoResponse}
    ELSE IF job = "Stopping"
    THEN {NoResponse,
          ClientError("ValidationException", RejectedInStatus(job) \o <<".">>, 400)}
    ELSE {ClientError("ValidationException", RejectedInStatus(job) \o <<".">>, 400)}

\* except ClientError as e: ... of _stop_execution_internal
stop_execution_error(e) ==
    IF e.code = "ValidationException"
    THEN IF Contains(e.message, RejectedInStatus("Stopped")) /\ e.http_status_code = 400
         THEN "ConflictError"
         ELSE IF Contains(e.message, RejectedInStatus("Failed"))
                    /\ e.http_status_code = 400
         THEN "ConflictError"
         ELSE IF Contains(e.message, ResourceNotFoundMessage) /\ e.http_status_code = 400
         THEN "ResourceNotFoundError"
         ELSE "ValidationError"
    ELSE "AWSClientException"

\* self.sagemaker_client.stop_training_job(TrainingJobName=execution_id)
RemoteStop ==
    /\ sdk.pc = "stop_execution"
    /\ \E a \in StopTrainingJobAnswers(sdk.job) :
          sdk' = [sdk EXCEPT !.pc = "done",
                             !.seen = sdk.job, !.response = a,
                             !.requests = Append(@, "SageMaker.stop_training_job"),
                             !.job = IF a = NoResponse /\ sdk.job = "InProgress"
                                     THEN "Stopping" ELSE @,
                             !.result = IF a = NoResponse THEN Ends(NULL)
                                        ELSE Ends(stop_execution_error(a))]
    /\ UNCHANGED etlVars

\* except ClientError as e: ... of _get_execution_internal
get_execution_error(e) ==
    IF e.code = "ValidationException"
    THEN IF Contains(e.message, ResourceNotFoundMessage) /\ e.http_status_code = 400
         THEN "ResourceNotFoundError"
         ELSE "InternalServerError"
    ELSE "AWSClientException"

\* describe_training_job and the list_tags pages
RemoteGet ==
    /\ sdk.pc = "get_execution"
    /\ \E a \in {ClientError("ThrottlingException", <<"Rate exceeded">>, 400)} \cup
                IF sdk.job = NoJob
                THEN {ClientError("ValidationException", ResourceNotFoundMessage, 400)}
                ELSE {NoResponse} :
          sdk' = [sdk EXCEPT !.pc = "done",
                             !.seen = sdk.job, !.response = a,
                             !.requests =
                                 IF a = NoResponse
                                 THEN @ \o <<"SageMaker.describe_training_job",
                                             "SageMaker.list_tags">>
                                 ELSE Append(@, "SageMaker.describe_training_job"),
                             !.result = IF a = NoResponse THEN Ends(NULL)
                                        ELSE Ends(get_execution_error(a))]
    /\ UNCHANGED etlVars

\* self.sagemaker_client.search(...)
RemoteList(code) ==
    /\ sdk.pc = "list_executions"
    /\ sdk' = [sdk EXCEPT !.pc = "done",
                          !.requests = Append(@, "SageMaker.search"),
                          !.result = IF code = NULL THEN Ends(NULL)
                                     ELSE IF code = "ValidationException"
                                     THEN Ends("ValueError")
                                     ELSE Ends("AWSClientException")]
    /\ UNCHANGED etlVars

\* validate_execution_name, validate_input_config, validate_client_token,
\* __validate_default_environment, __validate_stack
RemoteStartValidate(input_ok, stack_ok) ==
    /\ sdk.pc = "start_execution"
    /\ sdk' = IF ~execution_name_matches(sdk.execution_name)
              THEN [sdk EXCEPT !.pc = "done", !.result = Ends("ValidationError")]
              ELSE IF ~input_ok
              THEN [sdk EXCEPT !.pc = "done", !.result = Ends("ValidationError")]
              ELSE IF ~stack_ok
              THEN [sdk EXCEPT !.pc = "done", !.result = Ends("RuntimeError")]
              ELSE [sdk EXCEPT !.pc = "image"]
    /\ UNCHANGED etlVars

\* The project's S3 path, the instance type and the image account: DataZone,
\* EC2 describe_instance_types, SSM get_parameter
RemoteStartResolve(ok) ==
    /\ sdk.pc = "image"
    /\ sdk' = IF ok
              THEN [sdk EXCEPT !.pc = "create",
                               !.requests = @ \o <<"DataZone.default_environment",
                                                   "EC2.describe_instance_types",
                                                   "SSM.get_parameter">>]
              ELSE [sdk EXCEPT !.pc = "done",
                               !.requests = @ \o <<"DataZone.default_environment",
                                                   "EC2.describe_instance_types">>,
                               !.result = Ends("RuntimeError")]
    /\ UNCHANGED etlVars

\* self.sagemaker_client.create_training_job(**training_job_params)
RemoteStartCreate(ok) ==
    /\ sdk.pc = "create"
    /\ sdk' = IF ok
              THEN [sdk EXCEPT !.pc = "done", !.job = "InProgress",
                               !.requests = Append(@, "SageMaker.create_training_job"),
                               !.result = Ends(NULL)]
              ELSE [sdk EXCEPT !.pc = "done",
                               !.requests = Append(@, "SageMaker.create_training_job"),
                               !.result = Ends("RuntimeError")]
    /\ UNCHANGED etlVars

\* SageMaker runs the job while the client works
TrainingJobAdvances ==
    /\ sdk.pc \notin {"call", "done"}
    /\ \E next \in TrainingJobStatuses :
          /\ \/ sdk.job = "InProgress" /\ next \in {"Completed", "Failed"}
             \/ sdk.job = "Stopping" /\ next = "Stopped"
          /\ sdk' = [sdk EXCEPT !.job = next]
    /\ UNCHANGED etlVars

NextRemote ==
    \/ RemoteApiCall
    \/ RemoteSetupConfig
    \/ \E e \in {"ok", "ValueError", "RuntimeError"} : RemoteSetupEnvironment(e)
    \/ RemoteStop
    \/ RemoteGet
    \/ \E code \in {NULL, "ValidationException", "ThrottlingException"} : RemoteList(code)
    \/ \E input_ok \in BOOLEAN, stack_ok \in BOOLEAN : RemoteStartValidate(input_ok, stack_ok)
    \/ \E ok \in BOOLEAN : RemoteStartResolve(ok)
    \/ \E ok \in BOOLEAN : RemoteStartCreate(ok)
    \/ TrainingJobAdvances

SpecRemote == InitRemote /\ [][NextRemote]_vars

Requested(r) == \E i \in 1..Len(sdk.requests) : sdk.requests[i] = r

\* C17: stop_execution raises ConflictError whenever the training job it
\* targets is in a terminal status (Stopped, Failed, Completed) and the
\* service rejects the stop for it, and ResourceNotFoundError when the
\* execution does not exist.
C17_ConflictForEveryTerminalStatus ==
    (sdk.api = "stop_execution" /\ sdk.pc = "done"
        /\ sdk.response.code = "ValidationException") =>
        /\ sdk.seen \in {"Stopped", "Failed", "Completed"} =>
               sdk.result = Ends("ConflictError")
        /\ sdk.seen = NoJob => sdk.result = Ends("ResourceNotFoundError")

\* The name the claim of C18 allows: 1 to 26 characters, the first a letter
\* or digit, the others letters, digits or hyphens
NameAllowed(name) ==
    /\ Len(name) \in 1..26
    /\ name[1] \in AlnumChars
    /\ \A i \in 2..Len(name) : name[i] \in AlnumChars \cup {"-"}

\* C18: start_execution calls create_training_job only if the name, with
\* underscores replaced by hyphens, is 1 to 26 characters long, begins with
\* a letter or digit and otherwise has only letters, digits and hyphens; for
\* every other name the validation ends the call with ValidationError and no
\* training job is created.
C18_JobOnlyForAllowedName ==
    [][sdk.api = "start_execution" =>
          /\ Requested("SageMaker.create_training_job")' =>
                 NameAllowed(sdk.execution_name)
          /\ (sdk.pc = "start_execution" /\ sdk'.pc # sdk.pc
                  /\ ~NameAllowed(sdk.execution_name)) =>
                 sdk'.result = Ends("ValidationError") /\ sdk'.job = NoJob]_vars

-----------------------------------------------------------------------------
(* sagemaker_studio: ProjectService.get_project_default_environment.  sdk   *)
(* holds the blueprints of the domain, the environments of the project     *)
(* under each of the two blueprints, the requests sent to DataZone and how *)
(* the call ended.                                                          *)

MaxEnvs == 2              \* environments listed under one blueprint
MaxOrder == 1             \* deploymentOrder is null or 0 .. MaxOrder

DeploymentOrders == {NA} \cup {Num(n) : n \in 0..MaxOrder}

\* The environments list_environments answers with, in the order of the
\* answer; the id tells the blueprint and the place
Environments(blueprint) ==
    UNION {{[k \in 1..n |-> [id |-> <<blueprint, k>>, deploymentOrder |-> orders[k]]] :
                orders \in [1..n -> DeploymentOrders]} : n \in 0..MaxEnvs}

NoEnvironment == [id |-> <<>>, deploymentOrder |-> NA]

\* min([env for env in environments if env["deploymentOrder"] is not None],
\*     key=lambda env: env["deploymentOrder"], default=None): the first of
\* the environments with the smallest key
find_default_tooling_environment(environments) ==
    LET ordered == SelectSeq(environments, LAMBDA env : ~env.deploymentOrder.isna)
    IN  IF ordered = <<>> THEN NoEnvironment
        ELSE LET least == {i \in 1..Len(ordered) :
                             \A j \in 1..Len(ordered) :
                                 ordered[i].deploymentOrder.v <= ordered[j].deploymentOrder.v}
             IN  ordered[CHOOSE i \in least : \A j \in least : i <= j]

\* list_environment_blueprints(name=...): the managed blueprints of the
\* domain the name filter lets through; asked for "Tooling" DataZone also
\* answers "ToolingLite"
list_environment_blueprints(blueprints, name) ==
    LET known == <<"Tooling", "ToolingLite">>
    IN  SelectSeq(known, LAMBDA b : b \in blueprints /\ (b = name \/ name = "Tooling"))

ProjectCall(blueprints, tooling, lite) ==
    [api |-> "get_project_default_environment", pc |-> "tooling_blueprints",
     blueprints |-> blueprints, tooling |-> tooling, lite |-> lite,
     requests |-> <<>>, failed |-> NULL,
     result |-> [done |-> FALSE, raises |-> NULL, value |-> NoEnvironment]]

InitProject ==
    /\ StoreInit /\ LatestInit /\ FrameInit /\ FetchInit
    /\ \E blueprints \in SUBSET {"Tooling", "ToolingLite"} :
          \E tooling \in Environments("Tooling"), lite \in Environments("ToolingLite") :
              /\ "Tooling" \notin blueprints => tooling = <<>>
              /\ "ToolingLite" \notin blueprints => lite = <<>>
              /\ sdk = ProjectCall(blueprints, tooling, lite)

ProjectReturns(env) == [done |-> TRUE, raises |-> NULL, value |-> env]
ProjectRaises(e) == [done |-> TRUE, raises |-> e, value |-> NoEnvironment]

\* except ClientError as e: ValidationException -> ValueError, any other
\* code -> AWSClientException
project_client_error(code) ==
    IF code = "ValidationException" THEN "ValueError" ELSE "AWSClientException"

ProjectRequestFails(request, code) ==
    sdk' = [sdk EXCEPT !.pc = "done", !.requests = Append(@, request),
                       !.failed = code,
                       !.result = ProjectRaises(project_client_error(code))]

ClientErrorCodes == {NULL, "ValidationException", "AccessDeniedException"}

\* Lines 45-57: the Tooling blueprint
ProjectToolingBlueprints(code) ==
    /\ sdk.pc = "tooling_blueprints"
    /\ LET request == "list_environment_blueprints Tooling"
           tooling_blueprints == list_environment_blueprints(sdk.blueprints, "Tooling")
           named == SelectSeq(tooling_blueprints, LAMBDA b : b = "Tooling")
       IN  IF code # NULL THEN ProjectRequestFails(request, code)
           ELSE IF Len(tooling_blueprints) = 0
           THEN sdk' = [sdk EXCEPT !.pc = "done", !.requests = Append(@, request),
                                   !.result = ProjectRaises("ValueError")]
           ELSE IF named = <<>>      \* list(filter(...))[0]
           THEN sdk' = [sdk EXCEPT !.pc = "done", !.requests = Append(@, request),
                                   !.result = ProjectRaises("IndexError")]
           ELSE sdk' = [sdk EXCEPT !.pc = "tooling_environments",
                                   !.requests = Append(@, request)]
    /\ UNCHANGED etlVars

\* Lines 59-67: the environments of the Tooling blueprint
ProjectToolingEnvironments(code) ==
    /\ sdk.pc = "tooling_environments"
    /\ LET request == "list_environments Tooling"
           default_environment == find_default_tooling_environment(sdk.tooling)
       IN  IF code # NULL THEN ProjectRequestFails(request, code)
           ELSE IF default_environment # NoEnvironment
           THEN sdk' = [sdk EXCEPT !.pc = "done", !.requests = Append(@, request),
                                   !.result = ProjectReturns(default_environment)]
           ELSE sdk' = [sdk EXCEPT !.pc = "lite_blueprints",
                                   !.requests = Append(@, request)]
    /\ UNCHANGED etlVars

\* Lines 69-79: the ToolingLite blueprint
ProjectLiteBlueprints(code) ==
    /\ sdk.pc = "lite_blueprints"
    /\ LET request == "list_environment_blueprints ToolingLite"
           tooling_lite_blueprints ==
               list_environment_blueprints(sdk.blueprints, "ToolingLite")
       IN  IF code # NULL THEN ProjectRequestFails(request, code)
           ELSE IF Len(tooling_lite_blueprints) = 0
           THEN sdk' = [sdk EXCEPT !.pc = "done", !.requests = Append(@, request),
                                   !.result = ProjectRaises("ValueError")]
           ELSE sdk' = [sdk EXCEPT !.pc = "lite_environments",
                                   !.requests = Append(@, request)]
    /\ UNCHANGED etlVars

\* Lines 81-97: the environments of the ToolingLite blueprint
ProjectLiteEnvironments(code) ==
    /\ sdk.pc = "lite_environments"
    /\ LET request == "list_environments ToolingLite"
           default_environment == find_default_tooling_environment(sdk.lite)
       IN  IF code # NULL THEN ProjectRequestFails(request, code)
           ELSE IF default_environment = NoEnvironment
           THEN sdk' = [sdk EXCEPT !.pc = "done", !.requests = Append(@, request),
                                   !.result = ProjectRaises("ValueError")]
           ELSE sdk' = [sdk EXCEPT !.pc = "done", !.requests = Append(@, request),
                                   !.result = ProjectReturns(default_environment)]
    /\ UNCHANGED etlVars

NextProject ==
    \/ \E code \in ClientErrorCodes : ProjectToolingBlueprints(code)
    \/ \E code \in ClientErrorCodes : ProjectToolingEnvironments(code)
    \/ \E code \in ClientErrorCodes : ProjectLiteBlueprints(code)
    \/ \E code \in ClientErrorCodes : ProjectLiteEnvironments(code)

SpecProject == InitProject /\ [][NextProject]_vars

\* `env` is one of `environments` with a deploymentOrder, and none of them
\* has a smaller one
SmallestOrdered(env, environments) ==
    /\ \E i \in 1..Len(environments) : environments[i] = env
    /\ ~env.deploymentOrder.isna
    /\ \A i \in 1..Len(environments) :
          environments[i].deploymentOrder.isna
              \/ env.deploymentOrder.v <= environments[i].deploymentOrder.v

HasOrdered(environments) ==
    \E i \in 1..Len(environments) : ~environments[i].deploymentOrder.isna

\* C20: get_project_default_environment returns the Tooling environment
\* with the smallest non-null deploymentOrder when there is one; it queries
\* the ToolingLite blueprint and environments only when there is none, and
\* then returns the ToolingLite environment with the smallest non-null
\* deploymentOrder; it raises ValueError when the Tooling blueprint is
\* missing or when neither blueprint yields a default environment.
C20_DefaultEnvironment ==
    /\ Requested("list_environment_blueprints ToolingLite") => ~HasOrdered(sdk.tooling)
    /\ Requested("list_environments ToolingLite") => ~HasOrdered(sdk.tooling)
    /\ (sdk.pc = "done" /\ sdk.failed = NULL) =>
          IF "Tooling" \notin sdk.blueprints
          THEN sdk.result = ProjectRaises("ValueError")
          ELSE IF HasOrdered(sdk.tooling)
          THEN /\ sdk.result.raises = NULL
               /\ SmallestOrdered(sdk.result.value, sdk.tooling)
          ELSE IF HasOrdered(sdk.lite)
          THEN /\ sdk.result.raises = NULL
               /\ SmallestOrdered(sdk.result.value, sdk.lite)
          ELSE sdk.result = ProjectRaises("ValueError")


-----------------------------------------------------------------------------
(* sagemaker_studio: InternalUtils._get_field_from_environment.  sdk holds  *)
(* the space metadata file, the process environment, the default and the    *)
(* value returned.  None and a missing key are NULL.                        *)

\* The resource-metadata.json of the space: missing, not JSON, or an object
\* with the field at the top level and under AdditionalMetadata
MetadataFiles ==
    {[kind |-> "missing", top |-> NULL, additional |-> NULL],
     [kind |-> "undecodable", top |-> NULL, additional |-> NULL]}
        \cup [kind : {"json"}, top : {NULL, "", "top"}, additional : {NULL, "", "additional"}]

\* sagemaker_space_metadata.get(field)
\*     or sagemaker_space_metadata.get("AdditionalMetadata", {}).get(field)
get_field_from_sagemaker_space_metadata_json(file) ==
    IF file.kind = "undecodable" THEN Raises("RuntimeError")
    ELSE IF file.top \notin {NULL, ""} THEN Returns(file.top)
    ELSE Returns(file.additional)

\* _get_field_from_environment: the JSON's answer is returned whenever the
\* file exists and reading it did not raise
get_field_from_environment(file, environ, mapped, default) ==
    LET json == get_field_from_sagemaker_space_metadata_json(file)
    IN  IF file.kind # "missing" /\ json.raises = NULL THEN json.value
        ELSE IF environ.exact # NULL THEN environ.exact
        ELSE IF mapped /\ environ.mwaa # NULL THEN environ.mwaa
        ELSE default

InitField ==
    /\ StoreInit /\ LatestInit /\ FrameInit /\ FetchInit
    /\ sdk \in [api : {"_get_field_from_environment"}, pc : {"call"},
                file : MetadataFiles,
                environ : [exact : {NULL, "exact"}, mwaa : {NULL, "mwaa"}],
                mapped : BOOLEAN, default : {"", "prod"}, returned : {NULL}]

GetFieldCall ==
    /\ sdk.pc = "call"
    /\ sdk' = [sdk EXCEPT !.pc = "done",
                          !.returned = get_field_from_environment(
                                           sdk.file, sdk.environ, sdk.mapped, sdk.default)]
    /\ UNCHANGED etlVars

SpecField == InitField /\ [][GetFieldCall]_vars

\* C21: _get_field_from_environment returns the first value available in
\* the order: the field in the metadata JSON (top level, then under
\* AdditionalMetadata), the environment variable named as the field, the
\* mapped AIRFLOW__WORKFLOWS__ variable, the default; a metadata JSON that
\* does not contain the field leaves the choice to the environment and the
\* default.
C21_FirstAvailable ==
    sdk.pc = "done" =>
        sdk.returned =
            IF sdk.file.kind = "json" /\ sdk.file.top \notin {NULL, ""}
            THEN sdk.file.top
            ELSE IF sdk.file.kind = "json" /\ sdk.file.additional \notin {NULL, ""}
            THEN sdk.file.additional
            ELSE IF sdk.environ.exact # NULL THEN sdk.environ.exact
            ELSE IF sdk.mapped /\ sdk.environ.mwaa # NULL THEN sdk.environ.mwaa
            ELSE sdk.default


-----------------------------------------------------------------------------
(* sagemaker_studio: ConnectionService.list_connections.  sdk holds the     *)
(* pages DataZone serves, the loop's variables, the nextToken parameter of  *)
(* each request sent and the list returned.                                 *)

MaxPages == 3             \* pages of the listing
MaxItems == 2             \* connections on one page

TokenNames == <<"token1", "token2", "token3", "token4", "token5">>

\* The chains of pages: page k holds some connections and the token of page
\* k + 1; the last page has no nextToken
PageChains ==
    UNION {{[k \in 1..n |->
                [items |-> [j \in 1..counts[k] |-> <<k, j>>],
                 nextToken |-> IF k < n THEN TokenNames[k + 1] ELSE NULL]] :
             counts \in [1..n -> 0..MaxItems]} : n \in 1..MaxPages}

\* The page DataZone answers a request with: the first without nextToken,
\* else the one the token names
PageFor(pages, token) ==
    IF token = NULL THEN pages[1]
    ELSE pages[CHOOSE k \in 1..Len(pages) : TokenNames[k] = token]

\* (mutation: the token is never passed on)
params_without_token(next_token) == NULL

\* if next_token: params["nextToken"] = next_token
params_nextToken(next_token) ==
    IF next_token \notin {NULL, ""} THEN next_token ELSE NULL

InitList ==
    /\ StoreInit /\ LatestInit /\ FrameInit /\ FetchInit
    /\ sdk \in [api : {"list_connections"}, pc : {"while"}, pages : PageChains,
                next_token : {NULL}, first_call : {TRUE},
                connection_info_list : {<<>>}, requests : {<<>>}, result : {Pending}]

\* One turn of the while loop: the request and the Connection of each item;
\* a ClientError ends the call with RuntimeError
ListConnectionsPage(fails) ==
    /\ sdk.pc = "while"
    /\ sdk.next_token # NULL \/ sdk.first_call
    /\ LET token == params_nextToken(sdk.next_token)
           connection_list_response == PageFor(sdk.pages, token)
       IN  sdk' = IF fails
                  THEN [sdk EXCEPT !.pc = "done", !.first_call = FALSE,
                                   !.requests = Append(@, token),
                                   !.result = Ends("RuntimeError")]
                  ELSE [sdk EXCEPT !.first_call = FALSE,
                                   !.requests = Append(@, token),
                                   !.connection_info_list =
                                       @ \o connection_list_response.items,
                                   !.next_token = connection_list_response.nextToken]
    /\ UNCHANGED etlVars

\* The loop condition fails: return connection_info_list
ListConnectionsReturn ==
    /\ sdk.pc = "while"
    /\ ~(sdk.next_token # NULL \/ sdk.first_call)
    /\ sdk' = [sdk EXCEPT !.pc = "done", !.result = Ends(NULL)]
    /\ UNCHANGED etlVars

NextList ==
    \/ \E fails \in BOOLEAN : ListConnectionsPage(fails)
    \/ ListConnectionsReturn

SpecList == InitList /\ [][NextList]_vars /\ WF_vars(NextList)

RECURSIVE AllItems(_)
AllItems(pages) ==
    IF pages = <<>> THEN <<>> ELSE Head(pages).items \o AllItems(Tail(pages))

-----------------------------------------------------------------------------
(* sagemaker_studio: LocalExecutionClient.start_execution.  sdk holds the   *)
(* machine's load and CPU count, the bytes of the notebook's input folder   *)
(* and the free bytes of the user volume, the requests sent to the jobs     *)
(* scheduler and how the call ended.                                        *)

MaxBytes == 2             \* folder sizes 0 .. MaxBytes, free space one more

\* (mutation: one copy of an empty folder)
get_bytes_needed_nothing(total_folder_bytes) == 0

\* get_bytes_needed: the scheduler makes 2 copies of the input folder
get_bytes_needed(total_folder_bytes) == 2 * total_folder_bytes

InitLocalStart ==
    /\ StoreInit /\ LatestInit /\ FrameInit /\ FetchInit
    /\ sdk \in [api : {"LocalExecutionClient.start_execution"}, pc : {"cookies"},
                load_avg_one_min : 0..MaxBytes, num_cpus : 1..2,
                folder_bytes : 0..MaxBytes, bytes_free : 0..(MaxBytes + 1),
                cookies : {FALSE}, sent : {<<>>}, result : {Pending}]

\* self.xsrf = self.__set_cookies()
LocalStartCookies(c) ==
    /\ sdk.pc = "cookies"
    /\ sdk' = IF c = "ok" THEN [sdk EXCEPT !.pc = "capacity", !.cookies = TRUE]
              ELSE [sdk EXCEPT !.pc = "done", !.result = Ends("RuntimeError")]
    /\ UNCHANGED etlVars

\* Lines 343-365: the load and the disk space
LocalStartCapacity ==
    /\ sdk.pc = "capacity"
    /\ sdk' = IF sdk.load_avg_one_min > sdk.num_cpus
              THEN [sdk EXCEPT !.pc = "done", !.result = Ends("ThrottlingError")]
              ELSE IF get_bytes_needed(sdk.folder_bytes) > sdk.bytes_free
              THEN [sdk EXCEPT !.pc = "done",
                               !.result = Ends("ServiceQuotaExceededError")]
              ELSE [sdk EXCEPT !.pc = "post"]
    /\ UNCHANGED etlVars

\* Lines 367-431: the create-job POST; the scheduler answers 200, or an
\* error status
LocalStartPost(r) ==
    /\ sdk.pc = "post"
    /\ sdk' = [sdk EXCEPT !.pc = "done", !.sent = Append(@, "POST"),
                          !.result = IF r = 200 THEN Ends(NULL)
                                     ELSE Ends(get_api_error(r))]
    /\ UNCHANGED etlVars

NextLocalStart ==
    \/ \E c \in {"ok", "not ok", "no cookie"} : LocalStartCookies(c)
    \/ LocalStartCapacity
    \/ \E r \in {200, 409, 500} : LocalStartPost(r)

SpecLocalStart == InitLocalStart /\ [][NextLocalStart]_vars

-----------------------------------------------------------------------------
(* sagemaker_studio: Project.workflow_script_path and                      *)
(* RemoteExecutionUtils.pack_s3_path_for_input_file.  Paths are sequences   *)
(* of tokens: "/" and the names between the slashes.                        *)

\* pack_s3_path_for_input_file(project_s3_path, local_file_path,
\* is_git_project), called with the positional arguments `args`: a call
\* that does not give the three of them raises TypeError
pack_s3_path_for_input_file(args) ==
    IF Len(args) # 3 THEN Raises("TypeError")
    ELSE
    LET RECURSIVE rstrip(_), replace_dev(_)
        rstrip(t) == IF t # <<>> /\ t[Len(t)] = "/"
                     THEN rstrip(SubSeq(t, 1, Len(t) - 1)) ELSE t
        replace_dev(t) ==
            IF Len(t) < 2 THEN t
            ELSE IF t[1] = "/" /\ t[2] = "dev"
            THEN <<"/", "shared">> \o replace_dev(SubSeq(t, 3, Len(t)))
            ELSE <<t[1]>> \o replace_dev(Tail(t))
        \* re.sub(r"^/?<name>/", "", t)
        sub(name, t) ==
            IF StartsWith(t, <<name, "/">>) THEN SubSeq(t, 3, Len(t))
            ELSE IF StartsWith(t, <<"/", name, "/">>) THEN SubSeq(t, 4, Len(t))
            ELSE t
        project_s3_path == rstrip(args[1])
    IN  IF args[3]
        THEN Returns(project_s3_path
                        \o <<"/", "workflows", "/", "project-files", "/">>
                        \o sub("src", args[2]))
        ELSE Returns(replace_dev(project_s3_path) \o <<"/">> \o sub("shared", args[2]))

\* return RemoteExecutionUtils.pack_s3_path_for_input_file(
\*            self.root, local_script_path)
workflow_script_path(root, local_script_path) ==
    pack_s3_path_for_input_file(<<root, local_script_path>>)

ProjectRoots ==
    {<<"s3://bucket", "/", "domain", "/", "project">>,
     <<"s3://bucket", "/", "domain", "/", "project", "/">>,
     <<"s3://bucket", "/", "domain", "/", "project", "/", "dev", "/">>,
     <<"s3://bucket", "/", "shared", "/">>}

LocalScriptPaths ==
    {<<"getting_started.ipynb">>,
     <<"src", "/", "getting_started.ipynb">>,
     <<"/", "src", "/", "folder", "/", "getting_started.ipynb">>,
     <<"shared", "/", "folder", "/", "getting_started.ipynb">>,
     <<"/", "shared", "/", "job.py">>,
     <<"folder", "/", "src", "/", "job.py">>}

InitScriptPath ==
    /\ StoreInit /\ LatestInit /\ FrameInit /\ FetchInit
    /\ sdk \in [api : {"none"}, pc : {"call"}, root : ProjectRoots,
                local_script_path : LocalScriptPaths, is_git_project : BOOLEAN,
                result : {Returns(<<>>)}]

\* project.workflow_script_path(local_script_path)
WorkflowScriptPathCall ==
    /\ sdk.pc = "call"
    /\ sdk' = [sdk EXCEPT !.pc = "done", !.api = "workflow_script_path",
                          !.result = workflow_script_path(sdk.root, sdk.local_script_path)]
    /\ UNCHANGED etlVars

\* The call _start_execution_internal makes, with the three arguments
PackInputFileCall ==
    /\ sdk.pc = "call"
    /\ sdk' = [sdk EXCEPT !.pc = "done", !.api = "pack_s3_path_for_input_file",
                          !.result = pack_s3_path_for_input_file(
                                         <<sdk.root, sdk.local_script_path,
                                           sdk.is_git_project>>)]
    /\ UNCHANGED etlVars

NextScriptPath == WorkflowScriptPathCall \/ PackInputFileCall

SpecScriptPath == InitScriptPath /\ [][NextScriptPath]_vars

\* C24: workflow_script_path(local_script_path) returns the string
\* pack_s3_path_for_input_file produces for the project's root and that
\* local path.
C24_ScriptPathIsPackedPath ==
    (sdk.pc = "done" /\ sdk.api = "workflow_script_path") =>
        \E is_git_project \in BOOLEAN :
            sdk.result = pack_s3_path_for_input_file(
                             <<sdk.root, sdk.local_script_path, is_git_project>>)

-----------------------------------------------------------------------------
(* Project.connections (sagemaker_studio/project.py)                        *)

MaxConns == 4   \* connections list_connections returns

ConnectionNames == {"project.iam", "default.s3", "default.sql"}

\* The lists list_connections can return: each Connection has its name and,
\* as its identity, the position the service listed it at
ConnectionLists ==
    UNION {{[i \in 1..n |-> [name |-> names[i], listed_at |-> i]] :
                names \in [1..n -> ConnectionNames]} : n \in 0..MaxConns}

\* (mutation: the index of the last connection named "project.iam")
project_iam_connection_index_last(connections) ==
    LET at == {i \in 1..Len(connections) : connections[i].name = "project.iam"}
    IN  IF at = {} THEN -1 ELSE (CHOOSE i \in at : \A j \in at : j <= i) - 1

\* next((i for i, conn in enumerate(connections) if conn.name == "project.iam"), -1)
project_iam_connection_index(connections) ==
    LET at == {i \in 1..Len(connections) : connections[i].name = "project.iam"}
    IN  IF at = {} THEN -1 ELSE (CHOOSE i \in at : \A j \in at : i <= j) - 1

\* The property body, on the list list_connections returned
connections(listed) ==
    LET index == project_iam_connection_index(listed)
        popped == SubSeq(listed, 1, index) \o SubSeq(listed, index + 2, Len(listed))
    IN  IF index # -1 THEN <<listed[index + 1]>> \o popped ELSE listed

InitConnections ==
    /\ StoreInit /\ LatestInit /\ FrameInit /\ FetchInit
    /\ sdk \in [api : {"connections"}, pc : {"call"}, listed : ConnectionLists,
                result : {Returns(<<>>)}]

\* project.connections: list_connections returns the list, or raises the
\* RuntimeError it makes of a ClientError
ProjectConnections(fails) ==
    /\ sdk.pc = "call"
    /\ sdk' = [sdk EXCEPT !.pc = "done",
                          !.result = IF fails THEN Raises("RuntimeError")
                                     ELSE Returns(connections(sdk.listed))]
    /\ UNCHANGED etlVars

NextConnections == \E fails \in BOOLEAN : ProjectConnections(fails)

SpecConnections == InitConnections /\ [][NextConnections]_vars

\* C26: Project.connections returns the list of list_connections with the
\* first connection named "project.iam" moved to index 0 and every other
\* connection in its relative order; the list itself when no connection has
\* that name; nothing dropped, nothing duplicated.
C26_ProjectIamFirstRestInOrder ==
    (sdk.pc = "done" /\ sdk.result.raises = NULL) =>
        LET listed == sdk.listed
            got == sdk.result.value
            named == {i \in 1..Len(listed) : listed[i].name = "project.iam"}
        IN  /\ Len(got) = Len(listed)
            /\ {got[i] : i \in 1..Len(got)} = {listed[i] : i \in 1..Len(listed)}
            /\ named = {} => got = listed
            /\ named # {} =>
                 LET first == CHOOSE i \in named : \A j \in named : i <= j
                 IN  /\ got[1] = listed[first]
                     /\ \A i \in 1..Len(listed) :
                          /\ i < first => got[i + 1] = listed[i]
                          /\ i > first => got[i] = listed[i]

\* A list with two "project.iam" connections, the first of them not at the
\* head, has been returned
C26_Witness ==
    /\ sdk.pc = "done" /\ sdk.result.raises = NULL
    /\ Len(sdk.listed) = MaxConns
    /\ sdk.listed[1].name # "project.iam"
    /\ Cardinality({i \in 1..MaxConns : sdk.listed[i].name = "project.iam"}) = 2
    /\ sdk.result.value[1].listed_at = 2

-----------------------------------------------------------------------------
(* SageMakerStudioAPI (sagemaker_studio/sagemaker_studio_api.py): the class  *)
(* attribute __instance, the objects made, and the references callers hold.  *)
(* No per-service overrides, AWS_REGION unset.                               *)

MaxRefs == 2   \* constructor calls

\* ClientConfig(region, profile_name, overrides={"execution": {"local": ...}})
ClientConfigs ==
    [region : {NULL, "us-west-2"}, profile_name : {NULL, "dev"}, local : BOOLEAN]

NoSession == [region_name |-> NULL, profile_name |-> NULL]

\* An object __new__ has made and __init__ has not touched
NewInstance ==
    [sagemaker_studio_config |-> NULL, default_region |-> NULL,
     default_session |-> NoSession, datazone_api |-> NoSession,
     glue_api |-> NoSession, secrets_manager_api |-> NoSession,
     execution_client |-> NULL]

\* __new__: make the object when cls.__instance is None; return cls.__instance
SageMakerStudioAPI_new(a) ==
    IF a.instance = 0
    THEN [a EXCEPT !.heap = Append(@, NewInstance), !.instance = Len(a.heap) + 1]
    ELSE a

\* config.region or _get_domain_region() or "us-east-1"
default_region(config, domain_region) ==
    IF config.region # NULL THEN config.region
    ELSE IF domain_region # NULL THEN domain_region
    ELSE "us-east-1"

\* __init__(self, config) on object `self`; found is whether boto3 finds the
\* profile (Session raises ProfileNotFound otherwise, the fields assigned
\* before it stay assigned)
SageMakerStudioAPI_init(a, self, config, found) ==
    LET region == default_region(config, a.domain_region)
        profile_name == IF config.profile_name # NULL THEN config.profile_name
                        ELSE a.space_profile
        session == [region_name |-> region, profile_name |-> profile_name]
        started == [a.heap[self] EXCEPT !.sagemaker_studio_config = config,
                                        !.default_region = region]
    IN  IF profile_name # NULL /\ ~found THEN [a EXCEPT !.heap[self] = started]
        ELSE [a EXCEPT !.heap[self] =
                 [started EXCEPT !.default_session = session,
                                 !.datazone_api = session,
                                 !.glue_api = session,
                                 !.secrets_manager_api = session,
                                 !.execution_client =
                                     IF ~a.identifiers THEN NULL
                                     ELSE IF config.local THEN "LocalExecutionClient"
                                     ELSE "RemoteExecutionClient"]]

InitApi ==
    /\ StoreInit /\ LatestInit /\ FrameInit /\ FetchInit
    /\ sdk \in [api : {"SageMakerStudioAPI"}, instance : {0}, heap : {<<>>},
                refs : {<<>>}, calls : {0},
                domain_region : {NULL, "eu-west-1"},
                space_profile : {NULL, "DomainExecutionRoleCreds"},
                identifiers : BOOLEAN]

\* SageMakerStudioAPI(config): __new__, then __init__ on the object __new__
\* returned; the caller holds the reference when __init__ returns
Construct(config, found) ==
    /\ sdk.calls < MaxRefs
    /\ LET made == SageMakerStudioAPI_new(sdk)
           self == made.instance
           done == SageMakerStudioAPI_init(made, self, config, found)
           raised == (IF config.profile_name # NULL THEN config.profile_name
                      ELSE sdk.space_profile) # NULL /\ ~found
       IN  sdk' = [done EXCEPT !.calls = @ + 1,
                               !.refs = IF raised THEN @
                                        ELSE Append(@, [object |-> self,
                                                        config |-> config])]
    /\ UNCHANGED etlVars

NextApi == \E config \in ClientConfigs, found \in BOOLEAN : Construct(config, found)

SpecApi == InitApi /\ [][NextApi]_vars

\* C29: constructing another SageMakerStudioAPI with a different ClientConfig
\* leaves what an earlier reference observes as it was: its configuration,
\* region, session and service clients are those built from the config that
\* reference was constructed with.
C29_EarlierReferenceKeepsItsConfig ==
    \A i \in 1..Len(sdk.refs) :
        LET observed == sdk.heap[sdk.refs[i].object]
            config == sdk.refs[i].config
        IN  /\ observed.sagemaker_studio_config = config
            /\ observed.default_region = default_region(config, sdk.domain_region)
            /\ observed.default_session.region_name = observed.default_region
            /\ observed.datazone_api = observed.default_session
            /\ observed.glue_api = observed.default_session
            /\ observed.secrets_manager_api = observed.default_session
            /\ config.profile_name # NULL =>
                   observed.default_session.profile_name = config.profile_name
            /\ sdk.identifiers =>
                   observed.execution_client =
                       IF config.local THEN "LocalExecutionClient"
                       ELSE "RemoteExecutionClient"

-----------------------------------------------------------------------------
(* create_glue_table.main (scripts/create_glue_table.py) and the Glue        *)
(* crawler it starts.  sdk holds main's position, the crawler's State, how   *)
(* far the crawl main requested has come, and what main logged.              *)

MaxPolls == 4   \* get_crawler calls of one run

CrawlerStates == {"READY", "RUNNING", "STOPPING"}

InitGlue ==
    /\ StoreInit /\ LatestInit /\ FrameInit /\ FetchInit
    /\ sdk \in [api : {"create_glue_table.main"}, pc : {"start"},
                State : CrawlerStates, crawl : {"none"}, polls : {0},
                seen : {<<>>}, completed_logged : {FALSE}, failed : {NULL}]

\* glue.start_crawler(Name=...): CrawlerRunningException unless the crawler
\* is READY, or another error (r); when it returns, the crawl is requested
\* and the crawler shows RUNNING at once (shown) or a moment later.  Any
\* exception is caught by main's except block, and main returns.
StartCrawler(r, shown) ==
    /\ sdk.pc = "start"
    /\ sdk' = IF r # "ok"
              THEN [sdk EXCEPT !.pc = "done", !.failed = r]
              ELSE IF sdk.State # "READY"
              THEN [sdk EXCEPT !.pc = "done", !.failed = "CrawlerRunningException"]
              ELSE [sdk EXCEPT !.pc = "poll",
                               !.State = IF shown THEN "RUNNING" ELSE "READY",
                               !.crawl = IF shown THEN "running" ELSE "requested"]
    /\ UNCHANGED etlVars

\* One round of the while loop: get_crawler, then "completed" and break on
\* READY, else log the status and sleep; an exception ends main in the
\* except block
GetCrawler(r) ==
    /\ sdk.pc = "poll"
    /\ sdk.polls < MaxPolls
    /\ sdk' = IF r # "ok"
              THEN [sdk EXCEPT !.pc = "done", !.polls = @ + 1, !.failed = r]
              ELSE IF sdk.State = "READY"
              THEN [sdk EXCEPT !.pc = "done", !.polls = @ + 1,
                               !.seen = Append(@, sdk.State),
                               !.completed_logged = TRUE]
              ELSE [sdk EXCEPT !.polls = @ + 1, !.seen = Append(@, sdk.State)]
    /\ UNCHANGED etlVars

\* The crawler works while main runs: a requested crawl starts running, a
\* running crawl stops, a stopping crawler is READY again, and a READY
\* crawler starts a crawl of its own when its schedule says so
CrawlerAdvances ==
    /\ sdk.pc # "done"
    /\ \/ /\ sdk.crawl = "requested" /\ sdk.State = "READY"
          /\ sdk' = [sdk EXCEPT !.State = "RUNNING", !.crawl = "running"]
       \/ /\ sdk.crawl # "requested" /\ sdk.State = "READY"
          /\ sdk' = [sdk EXCEPT !.State = "RUNNING"]
       \/ /\ sdk.State = "RUNNING"
          /\ sdk' = [sdk EXCEPT !.State = "STOPPING"]
       \/ /\ sdk.State = "STOPPING"
          /\ sdk' = [sdk EXCEPT !.State = "READY",
                                !.crawl = IF @ = "running" THEN "completed" ELSE @]
    /\ UNCHANGED etlVars

NextGlue ==
    \/ \E r \in {"ok", "ClientError"}, shown \in BOOLEAN : StartCrawler(r, shown)
    \/ \E r \in {"ok", "ClientError"} : GetCrawler(r)
    \/ CrawlerAdvances

SpecGlue == InitGlue /\ [][NextGlue]_vars

\* C30: main logs the crawler as completed, and returns, only after the
\* crawl it started has run to completion: the READY it takes as completion
\* is one the crawler returned to after leaving READY for that crawl.
C30_CompletedOnlyAfterCrawl ==
    /\ sdk.completed_logged => sdk.crawl = "completed"
    /\ (sdk.pc = "done" /\ sdk.crawl # "none") => sdk.crawl = "completed"

=============================================================================
